---- MODULE Spec2Model ----
(***************************************************************************)
(* Model of the coordinate-centred mosaic engine of jrrk2/dss:              *)
(* EnhancedMosaicCreator (tile planning, the sequential tile workflow,      *)
(* assembly, target localisation and crop-to-centre).                       *)
(*                                                                          *)
(* Angles are integers in arcseconds.  Pixels are integers.                 *)
(***************************************************************************)
EXTENDS Integers, Sequences, FiniteSets, TLC

(***************************************************************************)
(* Program constants                                                        *)
(***************************************************************************)
CropSize == 1200
TileSize == 512
RawMaxPixel == 1535
ArcsecPerPixelCenti == 161
FullCircle == 1296000
GridDim == 3
MosaicOrder == 8
DirSpan == 10000
IntMax == 2147483647

RawMosaicSize == GridDim * TileSize
NTiles == GridDim * GridDim

(***************************************************************************)
(* Bounds of the model                                                      *)
(***************************************************************************)
SmallCanvas == 3
EdgeSlack == 2
SkyCols == 4
SeamRa == 200
MaxMissing == 1
MaxPresent == 1
MaxCalls == 2
MaxOrderIn == 2
PixelSlack == 2
OffCentre == 300
UrlSpans == 3
FlatRange == 20000
FlatScale == 64
OverlapMissing == 0

Min(a, b) == IF a < b THEN a ELSE b
Max(a, b) == IF a > b THEN a ELSE b
Abs(a) == IF a < 0 THEN -a ELSE a

VARIABLES
    \* ---- crop-to-centre, applied to an arbitrary canvas
    rawMosaic,          \* [width, height] of the canvas handed to cropMosaicToCenter
    targetPixel,        \* [x, y] handed to cropMosaicToCenter
    cropRect,           \* the QRect the function copies
    cropPc,             \* "input" before the call, "done" after it
    \* ---- EnhancedMosaicCreator
    m_customTarget,     \* SkyPosition [ra, dec, name]
    m_actualTarget,     \* SkyPosition [ra, dec, name]
    m_tiles,            \* QList<SimpleTile>
    m_currentTileIndex, \* int, 0-based
    m_fullMosaic,       \* QImage of the last centred mosaic
    replies,            \* QNetworkReply objects in flight: [chain, tileIndex, pixel]
    timers,             \* pending single-shot processNextTile timers (by chain)
    \* ---- history of the current workflow (not program state)
    phase,              \* "Idle", "Fetching", "Done" or "Failed"
    calls,              \* createCustomMosaic calls made while work was pending
    cur,                \* chain started by the latest createCustomMosaic
    attempts,           \* per tile index: reuse checks that hit plus fetches issued
    emitted,            \* mosaicComplete emissions since the workflow started
    assembles,          \* entries of assembleFinalMosaicCentered since it started
    report,             \* rows written by saveProgressReport since it started
    stale,              \* a reply or timer of an earlier chain touched the tile list
    env,                \* tiles the outside world has let succeed / fail since it started
    lastEvent,          \* the handler that ran last: [kind, tileIndex, result]
    \* ---- a function of ProperHipsClient or the creator applied on its own
    pureIn,             \* the arguments, and what the library answers for them
    pureOut,            \* what the function returned
    purePc,             \* "idle" (not used), "input" before the call, "done" after
    \* ---- the Healpix library of the build, on arguments it does not accept
    healpixLib,         \* [checksPixel, stdErrors]
    \* ---- SurveyDownloader
    m_testQueue,        \* QList<TestPosition> still to be handed to the creator
    m_downloadedImages, \* QList<TestPosition> of the images saved
    m_currentName,      \* name of the position handed last ("" before the first)
    queueTimers,        \* pending single-shot processNextInQueue timers
    allComplete,        \* runs of the "all downloads complete" branch
    \* ---- history of the downloader (not program state)
    queued,             \* the queue as it was filled
    handed,             \* the positions handed to the creator, in order
    \* ---- ProperHipsClient: the survey sweep
    m_surveys,          \* m_surveys.keys(): the survey names, in key order
    m_testPositions,    \* QList<SkyPosition>
    m_results,          \* QList<TileResult>
    m_currentSurveyIndex,
    m_currentPositionIndex,
    hipsReplies,        \* the client's replies in flight, with their properties
    hipsTimers,         \* pending single-shot startNextTest timers
    testingComplete,    \* emits of testingComplete
    \* ---- history of the sweep (not program state)
    tested,             \* the pairs startNextTest has taken up, in order
    sweeps,             \* calls of testAllSurveys
    extras,             \* calls of testSurveyAtPosition
    \* ---- DSSViewerWindow (src/fetcher)
    fetchingComposite,
    compositeFetchCount,
    irImage, redImage, blueImage,   \* the three slots of the composite
    currentImage,
    currentImageData,
    controlsEnabled,    \* setControlsEnabled: the fetch buttons and selectors
    saveEnabled,        \* saveImageBtn
    fetchReplies,       \* the fetcher's replies in flight
    \* ---- history of the viewer (not program state)
    requested,          \* surveys requested since the last composite began
    composites,         \* runs of createFalseColorComposite
    savedFile,          \* what the last onSaveImage wrote
    fetches,            \* requests issued so far
    latest,             \* the fetch completed last: its kind and its bytes
    \* ---- ImageCache
    cacheFiles,         \* the files of the cache directory, by path
    metadata,           \* QJsonObject: cache key -> entry
    now,                \* the clock, in hours
    \* ---- history of the cache (not program state)
    recent,             \* by key, the bytes of the last cacheImage that wrote
    got,                \* the last getCachedImage: key, bytes returned
    lastOp              \* the operation run last

cropVars == <<rawMosaic, targetPixel, cropRect, cropPc>>
pureVars == <<pureIn, pureOut, purePc>>
libVars == <<healpixLib>>
surveyVars == <<m_testQueue, m_downloadedImages, m_currentName, queueTimers,
                allComplete, queued, handed>>
sweepVars == <<m_surveys, m_testPositions, m_results, m_currentSurveyIndex,
               m_currentPositionIndex, hipsReplies, hipsTimers, testingComplete,
               tested, sweeps, extras>>
fetchVars == <<fetchingComposite, compositeFetchCount, irImage, redImage, blueImage,
               currentImage, currentImageData, controlsEnabled, saveEnabled,
               fetchReplies, requested, composites, savedFile, fetches, latest>>
cacheVars == <<cacheFiles, metadata, now, recent, got, lastOp>>
appVars == <<surveyVars, sweepVars, fetchVars, cacheVars>>
flowVars == <<m_customTarget, m_actualTarget, m_tiles, m_currentTileIndex,
              m_fullMosaic, replies, timers, phase, calls, cur, attempts,
              emitted, assembles, report, stale, env, lastEvent>>
vars == <<rawMosaic, targetPixel, cropRect, cropPc,
          m_customTarget, m_actualTarget, m_tiles, m_currentTileIndex,
          m_fullMosaic, replies, timers, phase, calls, cur, attempts,
          emitted, assembles, report, stale, env, lastEvent,
          pureIn, pureOut, purePc, healpixLib, appVars>>

(***************************************************************************)
(* cropMosaicToCenter: the crop rectangle for a W x H canvas and a target   *)
(* pixel (tx, ty).  The four adjustments are applied in the code's order.   *)
(***************************************************************************)
cropNoRightClamp(W, H, tx, ty) ==
    LET cropSize == Min(CropSize, Min(W, H))
        x0 == tx - cropSize \div 2
        y0 == ty - cropSize \div 2
    IN  [x |-> IF x0 < 0 THEN 0 ELSE x0,
         y |-> IF y0 < 0 THEN 0 ELSE y0,
         w |-> cropSize, h |-> cropSize]

cropOffByOne(W, H, tx, ty) ==
    LET cropSize == Min(CropSize, Min(W, H))
        x0 == tx - cropSize \div 2 + 1
        y0 == ty - cropSize \div 2
        x1 == IF x0 < 0 THEN 0 ELSE x0
        y1 == IF y0 < 0 THEN 0 ELSE y0
        x2 == IF x1 + cropSize > W THEN W - cropSize ELSE x1
        y2 == IF y1 + cropSize > H THEN H - cropSize ELSE y1
    IN  [x |-> x2, y |-> y2, w |-> cropSize, h |-> cropSize]

cropMosaicToCenter(W, H, tx, ty) ==
    LET cropSize == Min(CropSize, Min(W, H))
        x0 == tx - cropSize \div 2
        y0 == ty - cropSize \div 2
        x1 == IF x0 < 0 THEN 0 ELSE x0
        y1 == IF y0 < 0 THEN 0 ELSE y0
        x2 == IF x1 + cropSize > W THEN W - cropSize ELSE x1
        y2 == IF y1 + cropSize > H THEN H - cropSize ELSE y1
    IN  [x |-> x2, y |-> y2, w |-> cropSize, h |-> cropSize]

(***************************************************************************)
(* Canvases and target pixels tried for the crop: tiny canvases, canvases   *)
(* around the requested crop size, and the 1536 x 1536 raw mosaic; target   *)
(* pixels at the edges and around the places where the window starts to     *)
(* slide.                                                                   *)
(***************************************************************************)
CanvasSides ==
    (1 .. SmallCanvas)
        \cup ((CropSize - EdgeSlack) .. (CropSize + EdgeSlack))
        \cup {RawMosaicSize}

TargetCoords(side, other) ==
    LET s == Min(CropSize, Min(side, other))
    IN  ( (0 .. EdgeSlack)
            \cup ((side - 1 - EdgeSlack) .. (side - 1))
            \cup ((s \div 2 - EdgeSlack) .. (s \div 2 + EdgeSlack))
            \cup ((side - s + s \div 2 - EdgeSlack) .. (side - s + s \div 2 + EdgeSlack)) )
        \cap (0 .. (side - 1))

(***************************************************************************)
(* The pixelisation library (Healpix_Base), as the program sees it: a patch *)
(* of sky three pixels high and SkyCols wide on the equator, one tile       *)
(* (TileArcsec) apart, laid out so that the pixel in column 2 has its       *)
(* centre SeamRa arcseconds east of RA 0 and so straddles the RA 0/360      *)
(* seam.  Row 0 is the northern row; RA grows with the column.              *)
(***************************************************************************)
TileArcsec == (TileSize * ArcsecPerPixelCenti) \div 100
RaOrigin == FullCircle + SeamRa - 2 * TileArcsec
PixelAt(row, col) == row * SkyCols + col
RowOf(p) == p \div SkyCols
ColOf(p) == p % SkyCols

\* the pixel ids of the patch: the ids the library accepts
PatchPixels == 0 .. (GridDim * SkyCols - 1)

(***************************************************************************)
(* What the library does with an argument it does not accept is not in     *)
(* the program's hands.  healpixLib.checksPixel: pix2ang and neighbors     *)
(* throw for a pixel id outside the map (otherwise they compute with the   *)
(* id as it is).  healpixLib.stdErrors: what the library throws is a       *)
(* std::exception (otherwise it is a class of its own, which only          *)
(* catch (...) catches).                                                   *)
(***************************************************************************)
LibAny == healpixLib \in [checksPixel : BOOLEAN, stdErrors : BOOLEAN]
\* the workflow and the grid are run with arguments the library accepts
LibPlain == healpixLib = [checksPixel |-> FALSE, stdErrors |-> TRUE]

\* a pointing of the library: colatitude theta and longitude phi.
\* SkyPosition::toPointing gives theta = 90 degrees - dec and phi = ra
toPointing(position) ==
    [theta |-> FullCircle \div 4 - position.dec, phi |-> position.ra]

\* a conversion that takes the colatitude for the declination
fromPointingAsLatitude(pt) == [ra |-> pt.phi, dec |-> pt.theta, name |-> "HEALPix"]

\* healpixToSkyPosition: ra_deg from phi, dec_deg = 90 - theta
fromPointing(pt) ==
    [ra |-> pt.phi, dec |-> FullCircle \div 4 - pt.theta, name |-> "HEALPix"]

\* Healpix_Base::pix2ang: the centre of a pixel, by the arithmetic of the patch
pixelCentre(pixel) ==
    [theta |-> FullCircle \div 4 - (1 - RowOf(pixel)) * TileArcsec,
     phi |-> (RaOrigin + ColOf(pixel) * TileArcsec) % FullCircle]

\* pix2ang and the conversion of its pointing
pix2ang(pixel) == fromPointing(pixelCentre(pixel))

ErrorPosition == [ra |-> 0, dec |-> 0, name |-> "Error"]

\* healpixToSkyPosition: pix2ang inside try, the error position from catch (...)
healpixToSkyPosition(pixel) ==
    IF pixel \notin PatchPixels /\ healpixLib.checksPixel
    THEN ErrorPosition
    ELSE pix2ang(pixel)

\* Healpix_Base::ang2pix: the pixel a pointing is in, phi taken modulo a turn
pixelOf(pt) ==
    PixelAt((pt.theta - FullCircle \div 4 + TileArcsec + TileArcsec \div 2) \div TileArcsec,
            ((pt.phi - RaOrigin + TileArcsec \div 2 + FullCircle) % FullCircle)
                \div TileArcsec)

\* toPointing and ang2pix
ang2pix(position) == pixelOf(toPointing(position))

\* ang2pix asks for a colatitude in [0, pi]: a declination within +-90 degrees
ValidPointing(position) == Abs(position.dec) <= FullCircle \div 4
\* the Healpix_Base constructor asks for Nside = 2^k, k one of HealpixOrders
HealpixOrders == 0 .. 13
ValidNside(nside) == nside \in {2 ^ k : k \in HealpixOrders}

\* 1LL << order: defined for 0 <= order < 63, anything (`undefinedShift`) otherwise
ShiftLeft(order, undefinedShift) ==
    IF order >= 0 /\ order < 63 THEN 2 ^ order ELSE undefinedShift

\* calculateHealPixel(position, order): the try block, and catch of std::exception
calculateHealPixelAt(position, order, undefinedShift) ==
    LET nside == ShiftLeft(order, undefinedShift)
    IN  IF ValidNside(nside) /\ ValidPointing(position)
        THEN [escaped |-> FALSE, value |-> ang2pix(position)]
        ELSE IF healpixLib.stdErrors
        THEN [escaped |-> FALSE, value |-> -1]
        ELSE [escaped |-> TRUE, value |-> 0]

\* calculateHealPixel at the order createTileGrid uses
calculateHealPixel(position) == calculateHealPixelAt(position, MosaicOrder, 0).value

\* The pixel that has only seven neighbours, and the native slot that is -1
SevenNeighbourPixel == PixelAt(1, 2)
MissingSlot == 3

\* Healpix_Base::neighbors: slots 1..8 hold SW, W, NW, N, NE, E, SE, S; -1 = none
SlotRow == <<1, 0, -1, -1, -1, 0, 1, 1>>
SlotCol == <<-1, -1, -1, 0, 1, 1, 1, 0>>
neighbors(pixel) ==
    [i \in 1 .. 8 |->
        LET r == RowOf(pixel) + SlotRow[i]
            c == ColOf(pixel) + SlotCol[i]
        IN  IF r < 0 \/ r >= GridDim \/ c < 0 \/ c >= SkyCols
                \/ (pixel = SevenNeighbourPixel /\ i = MissingSlot)
            THEN -1
            ELSE PixelAt(r, c)]

(***************************************************************************)
(* ProperHipsClient: direction map and 3x3 grid                             *)
(***************************************************************************)
directions == <<"SW", "W", "NW", "N", "NE", "E", "SE", "S">>

\* the loop of getNeighboringPixels over the array the library filled: the
\* slots holding a pixel >= 0, in slot order
RECURSIVE appendValid(_, _)
appendValid(neighborArray, n) ==
    IF n = 0 THEN << >>
    ELSE IF neighborArray[n] >= 0
    THEN Append(appendValid(neighborArray, n - 1), neighborArray[n])
    ELSE appendValid(neighborArray, n - 1)

\* neighbors() inside try; catch (...) returns the empty list
getNeighboringPixels(centerPixel) ==
    IF centerPixel \notin PatchPixels /\ healpixLib.checksPixel
    THEN << >>
    ELSE appendValid(neighbors(centerPixel), 8)

\* a labelling loop that stops at the first slot without a neighbour
insertUntilMissing(neighborArray) ==
    LET present == {i \in 1 .. 8 : \A j \in 1 .. i : neighborArray[j] >= 0}
    IN  [d \in {directions[i] : i \in present} |->
            neighborArray[CHOOSE i \in present : directions[i] = d]]

\* the loop of getDirectionalNeighbors over the array the library filled: the
\* QMap holds directions[i] -> neighborArray[i] for the slots holding a pixel >= 0
insertValid(neighborArray) ==
    LET present == {i \in 1 .. 8 : neighborArray[i] >= 0}
    IN  [d \in {directions[i] : i \in present} |->
            neighborArray[CHOOSE i \in present : directions[i] = d]]

\* neighbors() inside try; the catch of std::exception leaves the map empty
getDirectionalNeighbors(centerPixel) ==
    IF centerPixel \notin PatchPixels /\ healpixLib.checksPixel
    THEN insertValid([i \in 1 .. 8 |-> -1])
    ELSE insertValid(neighbors(centerPixel))

\* QMap::value(key, default)
MapValue(map, key, default) ==
    IF key \in DOMAIN map THEN map[key] ELSE default

\* a grid that leaves -1 where the map has no neighbour
gridWithSentinel(nb, centerPixel) ==
    << << MapValue(nb, "NW", -1), MapValue(nb, "N", -1), MapValue(nb, "NE", -1) >>,
       << MapValue(nb, "W", -1), centerPixel, MapValue(nb, "E", -1) >>,
       << MapValue(nb, "SW", -1), MapValue(nb, "S", -1), MapValue(nb, "SE", -1) >> >>

\* a grid that reads the north cell for the north-east one as well
gridNorthTwice(nb, centerPixel) ==
    << << MapValue(nb, "NW", centerPixel), MapValue(nb, "N", centerPixel),
          MapValue(nb, "N", centerPixel) >>,
       << MapValue(nb, "W", centerPixel), centerPixel,
          MapValue(nb, "E", centerPixel) >>,
       << MapValue(nb, "SW", centerPixel), MapValue(nb, "S", centerPixel),
          MapValue(nb, "SE", centerPixel) >> >>

\* the three rows createProper3x3Grid appends, from the direction map `nb`
gridRows(nb, centerPixel) ==
    << << MapValue(nb, "NW", centerPixel), MapValue(nb, "N", centerPixel),
          MapValue(nb, "NE", centerPixel) >>,
       << MapValue(nb, "W", centerPixel), centerPixel,
          MapValue(nb, "E", centerPixel) >>,
       << MapValue(nb, "SW", centerPixel), MapValue(nb, "S", centerPixel),
          MapValue(nb, "SE", centerPixel) >> >>

createProper3x3Grid(centerPixel) ==
    gridRows(getDirectionalNeighbors(centerPixel), centerPixel)

(***************************************************************************)
(* Images.  A QImage is null ({}) or holds the picture of one sky pixel     *)
(* ({p}); a tile picture is TileSize x TileSize.                            *)
(***************************************************************************)
NullImage == {}
ImageOf(pixel) == {pixel}
ImageWidth(image) == IF image = NullImage THEN 0 ELSE TileSize

(***************************************************************************)
(* Tile URLs.  A URL "<base>/Norder<order>/Dir<dir>/Npix<pixel>.<format>"  *)
(* is the record of its five parts; the empty QString is NoUrl.  `dir` is  *)
(* a 32-bit int assigned from a 64-bit product; C++ division truncates     *)
(* towards zero.                                                           *)
(***************************************************************************)
TruncDiv(a, b) == IF a >= 0 THEN a \div b ELSE -((-a) \div b)

\* long long -> int: values above INT_MAX wrap around by 2^32
ToInt32(v) == IF v > IntMax THEN (v - IntMax - 1) - IntMax - 1 ELSE v

NoUrl == [base |-> "", order |-> 0, dir |-> 0, pixel |-> 0, format |-> ""]

\* the same URL with `dir` held in a 16-bit integer
HipsUrlShortDir(baseUrl, order, pixel, format) ==
    [base |-> baseUrl, order |-> order,
     dir |-> (TruncDiv(pixel, DirSpan) * DirSpan) % (2 ^ 16),
     pixel |-> pixel, format |-> format]

\* QString("%1/Norder%2/Dir%3/Npix%4.%5") with its five arguments
HipsUrl(baseUrl, order, pixel, format) ==
    [base |-> baseUrl, order |-> order,
     dir |-> ToInt32(TruncDiv(pixel, DirSpan) * DirSpan),
     pixel |-> pixel, format |-> format]

DSSColorBase == "http://alasky.u-strasbg.fr/DSS/DSSColor"

\* the URL createTileGrid gives a tile
tileUrl(pixel) == HipsUrl(DSSColorBase, MosaicOrder, pixel, "jpg")

\* the URL builders of ProperHipsClient, from the pixel calculateHealPixel gave
\* them; info is the survey's [baseUrl, format]
buildDSSUrl(info, order, pixel) ==
    IF pixel < 0 THEN NoUrl ELSE HipsUrl(info.baseUrl, order, pixel, info.format)

build2MASSUrl(info, order, pixel) == buildDSSUrl(info, order, pixel)

buildRubinUrl(info, order, pixel) ==
    IF pixel < 0 THEN NoUrl ELSE HipsUrl(info.baseUrl, order, pixel, info.format)

buildGenericHipsUrl(baseUrl, format, order, pixel) ==
    IF pixel < 0 THEN NoUrl ELSE HipsUrl(baseUrl, order, pixel, format)

\* the loop of createTileGrid over a 3x3 grid of pixel ids: nine tiles in
\* row-major order, none downloaded
planTiles(grid) ==
    [k \in 1 .. NTiles |->
        LET y == (k - 1) \div GridDim
            x == (k - 1) % GridDim
        IN  [gridX |-> x, gridY |-> y,
             healpixPixel |-> grid[y + 1][x + 1],
             downloaded |-> FALSE,
             image |-> NullImage,
             skyCoordinates |-> healpixToSkyPosition(grid[y + 1][x + 1]),
             url |-> tileUrl(grid[y + 1][x + 1])]]

createTileGrid(position) ==
    planTiles(createProper3x3Grid(calculateHealPixel(position)))

(***************************************************************************)
(* calculateAngularDistance.  The haversine distance grows with             *)
(*   a = sin^2(ddec/2) + cos(dec1) cos(dec2) sin^2(dra/2),                  *)
(* which for the small separations of a tile grid orders positions as       *)
(*   ddec^2 + cos(dec1) cos(dec2) dra^2,  dra taken the short way round     *)
(* (sin^2(dra/2) is the same for dra and 360 - dra).  The cosine is 1 in    *)
(* the equatorial patch modelled here.  Separations beyond FlatRange arc    *)
(* seconds (a target that is nowhere near its tiles) rank after every       *)
(* separation within it, by the same sum in units of FlatScale arc seconds. *)
(***************************************************************************)
CosNum(dec) == 1
CosDen(dec) == 1

ShortWay(dra) ==
    LET m == Abs(dra) % FullCircle
    IN  IF m > FullCircle \div 2 THEN FullCircle - m ELSE m

calculateAngularDistance(pos1, pos2) ==
    LET dra == ShortWay(pos2.ra - pos1.ra)
        ddec == pos2.dec - pos1.dec
        flat(a, b) == a * a * CosDen(pos1.dec) * CosDen(pos2.dec)
                        + CosNum(pos1.dec) * CosNum(pos2.dec) * b * b
    IN  IF Abs(ddec) <= FlatRange /\ dra <= FlatRange
        THEN flat(ddec, dra)
        ELSE flat(FlatRange, FlatRange) + flat(ddec \div FlatScale, dra \div FlatScale)

\* static_cast<int>(round(n / d)), d > 0: halves round away from zero
Round(n, d) ==
    IF n >= 0 THEN (2 * n + d) \div (2 * d) ELSE -((2 * (-n) + d) \div (2 * d))

\* the tile the loop of calculateTargetPixelPosition ends with: `<` keeps the
\* first tile among those at the least distance; 0 when the list is empty
ContainingTile(tiles, target) ==
    IF Len(tiles) = 0 THEN 0
    ELSE CHOOSE i \in 1 .. Len(tiles) :
           /\ \A j \in 1 .. Len(tiles) :
                calculateAngularDistance(target, tiles[j].skyCoordinates)
                    >= calculateAngularDistance(target, tiles[i].skyCoordinates)
           /\ \A j \in 1 .. (i - 1) :
                calculateAngularDistance(target, tiles[j].skyCoordinates)
                    > calculateAngularDistance(target, tiles[i].skyCoordinates)

\* a double outside the range of int converted by static_cast<int>: the
\* conversion is undefined, the build leaves some int
CastOutcomes == {-IntMax - 1, -1, 0, RawMaxPixel + 1, IntMax}

\* int addition of a tile pixel and an offset, wrapping at 32 bits
AddInt32(tilePixel, offset) ==
    IF offset > IntMax - tilePixel
    THEN ((offset - IntMax) - 1) + tilePixel + (-IntMax - 1)
    ELSE tilePixel + offset

placeTargetUnclamped(tile, offsetRA_pixels, offsetDec_pixels) ==
    [x |-> AddInt32(tile.gridX * TileSize + TileSize \div 2, offsetRA_pixels),
     y |-> AddInt32(tile.gridY * TileSize + TileSize \div 2, offsetDec_pixels)]

placeTargetAtCorner(tile, offsetRA_pixels, offsetDec_pixels) ==
    [x |-> Max(0, Min(AddInt32(tile.gridX * TileSize, offsetRA_pixels), RawMaxPixel)),
     y |-> Max(0, Min(AddInt32(tile.gridY * TileSize, offsetDec_pixels), RawMaxPixel))]

\* the tail of calculateTargetPixelPosition: the tile's centre pixel plus the
\* offsets, clamped to the canvas
placeTarget(tile, offsetRA_pixels, offsetDec_pixels) ==
    LET tilePixelX == tile.gridX * TileSize + TileSize \div 2
        tilePixelY == tile.gridY * TileSize + TileSize \div 2
        targetPixelX == AddInt32(tilePixelX, offsetRA_pixels)
        targetPixelY == AddInt32(tilePixelY, offsetDec_pixels)
    IN  [x |-> Max(0, Min(targetPixelX, RawMaxPixel)),
         y |-> Max(0, Min(targetPixelY, RawMaxPixel))]

calculateTargetPixelPosition(tiles, target) ==
    LET c == ContainingTile(tiles, target)
    IN  IF c = 0 THEN [x |-> RawMosaicSize \div 2, y |-> RawMosaicSize \div 2]
        ELSE LET tile == tiles[c]
                 offsetRA == target.ra - tile.skyCoordinates.ra
                 offsetDec == target.dec - tile.skyCoordinates.dec
                 offsetRA_pixels == Round(offsetRA * CosNum(target.dec) * 100,
                                          CosDen(target.dec) * ArcsecPerPixelCenti)
                 offsetDec_pixels == Round(-offsetDec * 100, ArcsecPerPixelCenti)
             IN  placeTarget(tile, offsetRA_pixels, offsetDec_pixels)

(***************************************************************************)
(* The handlers of EnhancedMosaicCreator, as functions from the object's    *)
(* state (a record s of its members and of the workflow's history) to the   *)
(* state they leave.  Inputs that come from outside the program are         *)
(* parameters: the local tile file found by checkExistingTile, the result   *)
(* of a fetch, whether the report file opens.                               *)
(***************************************************************************)
NullMosaic ==
    [isNull |-> TRUE, width |-> 0, height |-> 0, cropX |-> 0, cropY |-> 0,
     cells |-> [c \in 0 .. (NTiles - 1) |-> NullImage], overlay |-> FALSE]

(***************************************************************************)
(* What the outside world may do within one workflow: it lets at most       *)
(* MaxMissing tiles fail, or lets at most MaxPresent tiles succeed (a       *)
(* server that is down); once a second createCustomMosaic has been made     *)
(* while the first was at work, it lets at most OverlapMissing tiles fail.  *)
(* The tally stops counting one past each bound.                            *)
(***************************************************************************)
NoTally == [ok |-> 0, fail |-> 0]
TallyOk(e) == [e EXCEPT !.ok = Min(@ + 1, MaxPresent + 1)]
TallyFail(e) == [e EXCEPT !.fail = Min(@ + 1, Max(MaxMissing, OverlapMissing) + 1)]
WithinBudget(s) ==
    IF s.cur <= 1
    THEN s.env.fail <= MaxMissing \/ s.env.ok <= MaxPresent
    ELSE s.env.fail <= OverlapMissing

\* what saveProgressReport did: not called, called but the file did not open,
\* or the rows it wrote
NoReport == [called |-> FALSE, opened |-> FALSE, rows |-> << >>]

\* QList / event queue helper: the list without its n-th element
RemoveAt(seq, n) == SubSeq(seq, 1, n - 1) \o SubSeq(seq, n + 1, Len(seq))

\* a local tile file: does it exist, has it >= 1024 bytes, does it start with
\* FF D8 FF, does QImage::load decode it (a file under 1024 bytes is rejected
\* before its content is read, so its content is left out)
FileStates ==
    {f \in [exists : BOOLEAN, bigEnough : BOOLEAN, magic : BOOLEAN, decodes : BOOLEAN] :
        (f.bigEnough => f.exists) /\ (f.magic => f.bigEnough) /\ (f.decodes => f.magic)}
NoFile == [exists |-> FALSE, bigEnough |-> FALSE, magic |-> FALSE, decodes |-> FALSE]

\* isValidJpeg
isValidJpeg(file) == file.exists /\ file.magic

\* a check that does not look at the file's size
checkExistingTileAnySize(tile, file) ==
    IF ~file.exists THEN <<FALSE, tile>>
    ELSE IF ~isValidJpeg(file) THEN <<FALSE, tile>>
    ELSE IF ~file.decodes THEN <<FALSE, [tile EXCEPT !.image = NullImage]>>
    ELSE <<TRUE, [tile EXCEPT !.image = ImageOf(tile.healpixPixel),
                              !.downloaded = TRUE]>>

\* a check that marks the tile before it looks at the loaded picture
checkExistingTileMarksFirst(tile, file) ==
    IF ~(file.exists /\ file.bigEnough) THEN <<FALSE, tile>>
    ELSE IF ~isValidJpeg(file) THEN <<FALSE, tile>>
    ELSE IF ~file.decodes
    THEN <<FALSE, [tile EXCEPT !.image = NullImage, !.downloaded = TRUE]>>
    ELSE <<TRUE, [tile EXCEPT !.image = ImageOf(tile.healpixPixel),
                              !.downloaded = TRUE]>>

\* checkExistingTile: <<return value, the tile as it leaves it>>
checkExistingTile(tile, file) ==
    IF ~(file.exists /\ file.bigEnough) THEN <<FALSE, tile>>
    ELSE IF ~isValidJpeg(file) THEN <<FALSE, tile>>
    ELSE IF ~file.decodes THEN <<FALSE, [tile EXCEPT !.image = NullImage]>>
    ELSE <<TRUE, [tile EXCEPT !.image = ImageOf(tile.healpixPixel),
                              !.downloaded = TRUE]>>

\* a report that writes YES in every row
saveProgressReportAllYes(s, opens) ==
    IF ~opens
    THEN [s EXCEPT !.report = [called |-> TRUE, opened |-> FALSE, rows |-> << >>]]
    ELSE [s EXCEPT !.report =
            [called |-> TRUE, opened |-> TRUE,
             rows |->
               [k \in 1 .. Len(s.tiles) |->
                 [gridX |-> s.tiles[k].gridX, gridY |-> s.tiles[k].gridY,
                  healpixPixel |-> s.tiles[k].healpixPixel,
                  downloaded |-> "YES",
                  imageWidth |-> ImageWidth(s.tiles[k].image),
                  imageHeight |-> ImageWidth(s.tiles[k].image)]]]]

\* saveProgressReport: one row per tile of m_tiles, when the file opens
saveProgressReport(s, opens) ==
    IF ~opens
    THEN [s EXCEPT !.report = [called |-> TRUE, opened |-> FALSE, rows |-> << >>]]
    ELSE [s EXCEPT !.report =
            [called |-> TRUE, opened |-> TRUE,
             rows |->
               [k \in 1 .. Len(s.tiles) |->
                 [gridX |-> s.tiles[k].gridX, gridY |-> s.tiles[k].gridY,
                  healpixPixel |-> s.tiles[k].healpixPixel,
                  downloaded |-> IF s.tiles[k].downloaded THEN "YES" ELSE "NO",
                  imageWidth |-> ImageWidth(s.tiles[k].image),
                  imageHeight |-> ImageWidth(s.tiles[k].image)]]]]

\* a tile takes part in the mosaic when it is downloaded and has a picture
HasData(tile) == tile.downloaded /\ tile.image # NullImage

\* the raw 3x3 canvas after painting tiles[1..k] in list order (black = null)
RECURSIVE PaintTiles(_, _)
PaintTiles(tiles, k) ==
    IF k = 0 THEN [c \in 0 .. (NTiles - 1) |-> NullImage]
    ELSE LET below == PaintTiles(tiles, k - 1)
             tile == tiles[k]
         IN  IF ~HasData(tile) THEN below
             ELSE [below EXCEPT ![tile.gridY * GridDim + tile.gridX] = tile.image]

\* QPainter::drawImage(pixelX, pixelY, image): the canvas pixels it writes
Draws(pixelX, pixelY, image, px, py) ==
    /\ px \in pixelX .. (pixelX + ImageWidth(image) - 1)
    /\ py \in pixelY .. (pixelY + ImageWidth(image) - 1)

Black == [image |-> NullImage, x |-> 0, y |-> 0]

\* a canvas whose tiles are drawn with the grid coordinates exchanged
rawMosaicPixelTransposed(tiles, px, py) ==
    LET drawn == {k \in 1 .. Len(tiles) :
                     /\ HasData(tiles[k])
                     /\ Draws(tiles[k].gridY * TileSize, tiles[k].gridX * TileSize,
                              tiles[k].image, px, py)}
    IN  IF drawn = {} THEN Black
        ELSE LET k == CHOOSE i \in drawn : \A j \in drawn : i >= j
             IN  [image |-> tiles[k].image,
                  x |-> px - tiles[k].gridY * TileSize,
                  y |-> py - tiles[k].gridX * TileSize]

\* the raw canvas after the loop over m_tiles, at canvas pixel (px, py): the
\* pixel of the last tile drawn over it, black where no tile was drawn
rawMosaicPixel(tiles, px, py) ==
    LET drawn == {k \in 1 .. Len(tiles) :
                     /\ HasData(tiles[k])
                     /\ Draws(tiles[k].gridX * TileSize, tiles[k].gridY * TileSize,
                              tiles[k].image, px, py)}
    IN  IF drawn = {} THEN Black
        ELSE LET k == CHOOSE i \in drawn : \A j \in drawn : i >= j
             IN  [image |-> tiles[k].image,
                  x |-> px - tiles[k].gridX * TileSize,
                  y |-> py - tiles[k].gridY * TileSize]

\* an assembly without the zero-tiles exit
assembleZeroTilesAllowed(s, opens) ==
    LET s1 == [s EXCEPT !.assembles = @ + 1]
        tp == calculateTargetPixelPosition(s.tiles, s.actual)
        rect == cropMosaicToCenter(RawMosaicSize, RawMosaicSize, tp.x, tp.y)
        centeredMosaic ==
            [isNull |-> FALSE, width |-> rect.w, height |-> rect.h,
             cropX |-> rect.x, cropY |-> rect.y,
             cells |-> PaintTiles(s.tiles, Len(s.tiles)), overlay |-> TRUE]
    IN  saveProgressReport(
            [s1 EXCEPT !.full = centeredMosaic, !.phase = "Done",
                       !.emitted = @ + 1], opens)

\* an assembly that drops the stored mosaic when no tile has data
assembleClearsOnFailure(s, opens) ==
    IF \E k \in 1 .. Len(s.tiles) : HasData(s.tiles[k])
    THEN assembleZeroTilesAllowed(s, opens)
    ELSE [s EXCEPT !.assembles = @ + 1, !.phase = "Failed", !.full = NullMosaic]

\* assembleFinalMosaicCentered
assembleFinalMosaicCentered(s, opens) ==
    LET successfulTiles == Cardinality({k \in 1 .. Len(s.tiles) : HasData(s.tiles[k])})
        s1 == [s EXCEPT !.assembles = @ + 1]
        tp == calculateTargetPixelPosition(s.tiles, s.actual)
        rect == cropMosaicToCenter(RawMosaicSize, RawMosaicSize, tp.x, tp.y)
        centeredMosaic ==
            [isNull |-> FALSE, width |-> rect.w, height |-> rect.h,
             cropX |-> rect.x, cropY |-> rect.y,
             cells |-> PaintTiles(s.tiles, Len(s.tiles)), overlay |-> TRUE]
    IN  IF successfulTiles = 0
        THEN [s1 EXCEPT !.phase = "Failed"]
        ELSE saveProgressReport(
                 [s1 EXCEPT !.full = centeredMosaic, !.phase = "Done",
                            !.emitted = @ + 1], opens)

\* downloadTile: one more reply in flight, carrying its tile index
downloadTile(s, tileIndex, chain) ==
    IF tileIndex >= Len(s.tiles) THEN s
    ELSE [s EXCEPT !.replies = Append(@,
                      [chain |-> chain, tileIndex |-> tileIndex,
                       pixel |-> s.tiles[tileIndex + 1].healpixPixel,
                       url |-> s.tiles[tileIndex + 1].url]),
                   !.attempts[tileIndex] = @ + 1]

\* processNextTile, run for `chain` (from createCustomMosaic or from a timer)
processNextTile(s, chain, file, opens) ==
    LET s0 == [s EXCEPT !.stale = @ \/ chain # s.cur]
    IN  IF s0.idx >= Len(s0.tiles) THEN assembleFinalMosaicCentered(s0, opens)
        ELSE LET chk == checkExistingTile(s0.tiles[s0.idx + 1], file)
                 s1 == [s0 EXCEPT !.tiles[s0.idx + 1] = chk[2]]
             IN  IF chk[1]
                 THEN [s1 EXCEPT !.idx = @ + 1,
                                 !.env = TallyOk(@),
                                 !.timers = Append(@, chain),
                                 !.attempts[s0.idx] = @ + 1]
                 ELSE downloadTile(s1, s1.idx, chain)

\* a reply handler that marks the tile downloaded whatever the result
TileMarkedOnFailure(tile, reply, result) ==
    IF result = "ok"
    THEN [tile EXCEPT !.image = ImageOf(reply.pixel), !.downloaded = TRUE]
    ELSE [tile EXCEPT !.downloaded = TRUE]

\* the tile a finished reply leaves: result is "ok" (no error, body decodes),
\* "undecodable" (no error, loadFromData fails), "error" or "timeout" (abort)
TileAfterReply(tile, reply, result) ==
    IF result = "ok"
    THEN [tile EXCEPT !.image = ImageOf(reply.pixel), !.downloaded = TRUE]
    ELSE IF result = "undecodable"
    THEN [tile EXCEPT !.image = NullImage]
    ELSE tile

\* a handler that also issues the next fetch at once, without the settling timer
onTileDownloadedEager(s, n, result) ==
    LET reply == s.replies[n]
        s1 == [s EXCEPT !.tiles[reply.tileIndex + 1] = TileAfterReply(@, reply, result),
                        !.replies = RemoveAt(@, n),
                        !.idx = @ + 1,
                        !.timers = Append(@, reply.chain),
                        !.env = IF result = "ok" THEN TallyOk(@) ELSE TallyFail(@)]
    IN  IF reply.tileIndex >= Len(s.tiles)
        THEN [s EXCEPT !.replies = RemoveAt(@, n)]
        ELSE downloadTile(s1, s1.idx, reply.chain)

\* a handler that stays on the tile when its fetch failed, so it is fetched again
onTileDownloadedRetry(s, n, result) ==
    LET reply == s.replies[n]
    IN  IF reply.tileIndex >= Len(s.tiles)
        THEN [s EXCEPT !.replies = RemoveAt(@, n)]
        ELSE [s EXCEPT !.tiles[reply.tileIndex + 1] = TileAfterReply(@, reply, result),
                       !.replies = RemoveAt(@, n),
                       !.idx = IF result = "ok" THEN @ + 1 ELSE @,
                       !.timers = Append(@, reply.chain),
                       !.env = IF result = "ok" THEN TallyOk(@) ELSE TallyFail(@)]

\* a handler that schedules nothing after an aborted fetch
onTileDownloadedStall(s, n, result) ==
    LET reply == s.replies[n]
    IN  IF reply.tileIndex >= Len(s.tiles)
        THEN [s EXCEPT !.replies = RemoveAt(@, n)]
        ELSE [s EXCEPT !.tiles[reply.tileIndex + 1] = TileAfterReply(@, reply, result),
                       !.replies = RemoveAt(@, n),
                       !.idx = @ + 1,
                       !.timers = IF result = "timeout" THEN @ ELSE Append(@, reply.chain),
                       !.env = IF result = "ok" THEN TallyOk(@) ELSE TallyFail(@)]

\* onTileDownloaded, for the n-th reply in flight, which emitted finished()
onTileDownloaded(s, n, result) ==
    LET reply == s.replies[n]
    IN  IF reply.tileIndex >= Len(s.tiles)
        THEN [s EXCEPT !.replies = RemoveAt(@, n)]
        ELSE [s EXCEPT !.tiles[reply.tileIndex + 1] = TileAfterReply(@, reply, result),
                       !.replies = RemoveAt(@, n),
                       !.idx = @ + 1,
                       !.timers = Append(@, reply.chain),
                       !.env = IF result = "ok" THEN TallyOk(@) ELSE TallyFail(@),
                       !.stale = @ \/ reply.chain # s.cur]

\* createCustomMosaic, started as chain `chain`
createCustomMosaic(s, target, chain, file, opens) ==
    LET s1 == [s EXCEPT !.custom = target, !.actual = target,
                        !.tiles = createTileGrid(target),
                        !.idx = 0,
                        !.cur = chain, !.phase = "Fetching",
                        !.attempts = [i \in 0 .. (NTiles - 1) |-> 0],
                        !.emitted = 0, !.assembles = 0, !.report = NoReport,
                        !.stale = FALSE, !.env = NoTally]
    IN  processNextTile(s1, chain, file, opens)

(***************************************************************************)
(* The direction the neighbour diagnostic derives for a neighbour at `pt`  *)
(* of a pixel centred at `center`: delta_ra is (ra - center_ra) times      *)
(* cos(center_dec), the difference of the two right ascensions as they     *)
(* are, and the comparisons are the code's.                                *)
(***************************************************************************)
classifyDirection(center, pt) ==
    LET raDiff == pt.ra - center.ra
        delta_dec == pt.dec - center.dec
        \* |delta_dec| > |delta_ra| * 2  and  |delta_ra| > |delta_dec| * 2,
        \* both sides multiplied by the cosine's denominator
        vertical == Abs(delta_dec) * CosDen(center.dec)
                        > Abs(raDiff) * CosNum(center.dec) * 2
        horizontal == Abs(raDiff) * CosNum(center.dec)
                        > Abs(delta_dec) * CosDen(center.dec) * 2
        ns == IF delta_dec > 0 THEN "N" ELSE "S"
        ew == IF raDiff * CosNum(center.dec) > 0 THEN "E" ELSE "W"
    IN  IF vertical THEN ns
        ELSE IF horizontal THEN ew
        ELSE IF ns = "N" THEN (IF ew = "E" THEN "NE" ELSE "NW")
        ELSE (IF ew = "E" THEN "SE" ELSE "SW")

(***************************************************************************)
(* SimpleCoordinateParser.  A text is a sequence of characters.  A double  *)
(* that stands for hours, degrees, minutes or seconds is held as 3600      *)
(* times its value, so that a parsed coordinate is in arcseconds like       *)
(* every other coordinate here; the texts applied below carry at most two   *)
(* decimals, and none of them spells an exponent, inf or nan.              *)
(***************************************************************************)
Digits == <<"0", "1", "2", "3", "4", "5", "6", "7", "8", "9">>
IsDigit(c) == \E i \in 1 .. Len(Digits) : Digits[i] = c
DigitValue(c) == (CHOOSE i \in 1 .. Len(Digits) : Digits[i] = c) - 1
ArcsecPerUnit == 60 * 60

\* QString::trimmed, contains, startsWith, mid, split
trimmed(text) ==
    LET ink == {i \in 1 .. Len(text) : text[i] # " "}
    IN  IF ink = {} THEN << >>
        ELSE SubSeq(text, CHOOSE i \in ink : \A j \in ink : i <= j,
                          CHOOSE i \in ink : \A j \in ink : i >= j)
contains(text, c) == \E i \in 1 .. Len(text) : text[i] = c
startsWith(text, c) == Len(text) > 0 /\ text[1] = c
mid(text, n) == SubSeq(text, n + 1, Len(text))
RECURSIVE split(_, _)
split(text, sep) ==
    IF ~contains(text, sep) THEN <<text>>
    ELSE LET i == CHOOSE k \in 1 .. Len(text) :
                      text[k] = sep /\ \A j \in 1 .. (k - 1) : text[j] # sep
         IN  <<SubSeq(text, 1, i - 1)>> \o split(mid(text, i), sep)

\* the index after the run of digits that starts at i (i itself when none)
RECURSIVE DigitRun(_, _)
DigitRun(text, i) ==
    IF i <= Len(text) /\ IsDigit(text[i]) THEN DigitRun(text, i + 1) ELSE i

\* the value of the digits text[a .. b-1] read as an integer part, and as
\* the decimals after a point
RECURSIVE WholeOf(_, _, _)
WholeOf(text, a, b) ==
    IF a >= b THEN 0
    ELSE WholeOf(text, a, b - 1) * 10 + DigitValue(text[b - 1]) * ArcsecPerUnit
RECURSIVE DecimalsOf(_, _, _, _)
DecimalsOf(text, a, b, weight) ==
    IF a >= b THEN 0
    ELSE DigitValue(text[a]) * (weight \div 10)
            + DecimalsOf(text, a + 1, b, weight \div 10)

\* QString::toDouble: an optional sign, digits with an optional point, blanks
\* around them; any other text fails and gives 0.0
toDouble(text) ==
    LET t == trimmed(text)
        signed == startsWith(t, "-") \/ startsWith(t, "+")
        body == IF signed THEN mid(t, 1) ELSE t
        e == DigitRun(body, 1)
        point == e <= Len(body) /\ body[e] = "."
        f == IF point THEN DigitRun(body, e + 1) ELSE e
        digits == (e - 1) + (IF point THEN f - e - 1 ELSE 0)
        value == WholeOf(body, 1, e)
                    + (IF point THEN DecimalsOf(body, e + 1, f, ArcsecPerUnit) ELSE 0)
    IN  IF digits = 0 \/ f <= Len(body) THEN 0
        ELSE IF startsWith(t, "-") THEN -value ELSE value

\* (\d+(?:\.\d+)?) followed by the character unit, tried at index i: the
\* index after the number (0 when there is no match at i)
NumberEnd(text, i, unit) ==
    LET e == DigitRun(text, i)
        f == IF e <= Len(text) /\ text[e] = "." /\ DigitRun(text, e + 1) > e + 1
             THEN DigitRun(text, e + 1) ELSE e
    IN  IF e > i /\ f <= Len(text) /\ text[f] = unit THEN f ELSE 0

\* QRegularExpression::match of (num)unit(?:(num)m)?(?:(num)s)? : the
\* leftmost match; a captured text is empty when its group took no part
NoCaptures == [hasMatch |-> FALSE, c1 |-> << >>, c2 |-> << >>, c3 |-> << >>]
match(text, unit) ==
    LET starts == {i \in 1 .. Len(text) : NumberEnd(text, i, unit) # 0}
    IN  IF starts = {} THEN NoCaptures
        ELSE LET i1 == CHOOSE i \in starts : \A j \in starts : i <= j
                 e1 == NumberEnd(text, i1, unit)
                 e2 == NumberEnd(text, e1 + 1, "m")
                 i3 == IF e2 = 0 THEN e1 + 1 ELSE e2 + 1
                 e3 == NumberEnd(text, i3, "s")
             IN  [hasMatch |-> TRUE,
                  c1 |-> SubSeq(text, i1, e1 - 1),
                  c2 |-> IF e2 = 0 THEN << >> ELSE SubSeq(text, e1 + 1, e2 - 1),
                  c3 |-> IF e3 = 0 THEN << >> ELSE SubSeq(text, i3, e3 - 1)]

\* hours (or degrees) + minutes/60.0 + seconds/3600.0
sexagesimal(first, minutes, seconds) ==
    first + minutes \div 60 + seconds \div ArcsecPerUnit

sexagesimalParts(parts) ==
    sexagesimal(toDouble(parts[1]), toDouble(parts[2]),
                IF Len(parts) > 2 THEN toDouble(parts[3]) ELSE 0)

sexagesimalCaptures(m) ==
    sexagesimal(toDouble(m.c1),
                IF m.c2 = << >> THEN 0 ELSE toDouble(m.c2),
                IF m.c3 = << >> THEN 0 ELSE toDouble(m.c3))

parseRAAsDegrees(text) == toDouble(trimmed(text))

parseRA(text) ==
    LET clean == trimmed(text)
        degrees == toDouble(clean)
    IN  IF contains(clean, ":") /\ Len(split(clean, ":")) >= 2
        THEN sexagesimalParts(split(clean, ":")) * 15
        ELSE IF contains(clean, "h") /\ match(clean, "h").hasMatch
        THEN sexagesimalCaptures(match(clean, "h")) * 15
        ELSE IF degrees <= 24 * ArcsecPerUnit THEN degrees * 15
        ELSE degrees

\* the sign applied to the degrees field alone
parseDecSignOnDegrees(text) ==
    LET clean == trimmed(text)
        parts == split(clean, ":")
    IN  IF contains(clean, ":")
        THEN sexagesimal(toDouble(parts[1]), toDouble(parts[2]),
                         IF Len(parts) > 2 THEN toDouble(parts[3]) ELSE 0)
        ELSE toDouble(clean)

parseDec(text) ==
    LET trimmedText == trimmed(text)
        negative == startsWith(trimmedText, "-")
        unsigned == IF negative THEN mid(trimmedText, 1) ELSE trimmedText
        clean == IF startsWith(unsigned, "+") THEN mid(unsigned, 1) ELSE unsigned
        result == IF contains(clean, ":") /\ Len(split(clean, ":")) >= 2
                  THEN sexagesimalParts(split(clean, ":"))
                  ELSE IF contains(clean, "d") /\ match(clean, "d").hasMatch
                  THEN sexagesimalCaptures(match(clean, "d"))
                  ELSE toDouble(clean)
    IN  IF negative THEN -result ELSE result

parseCoordinates(raText, decText, name) ==
    [ra |-> parseRA(raText), dec |-> parseDec(decText), name |-> name]

\* the custom target alone
setCustomTargetOnly(s, raText, decText, name) ==
    [s EXCEPT !.custom = parseCoordinates(raText, decText, name)]

\* setCustomCoordinates: nothing in the parser throws, the catch is not entered
setCustomCoordinates(s, raText, decText, name) ==
    [s EXCEPT !.custom = parseCoordinates(raText, decText, name),
              !.actual = parseCoordinates(raText, decText, name)]

(***************************************************************************)
(* The texts the parser is applied to.  A written coordinate has a form    *)
(* (a plain number, fields separated by colons, fields followed by unit    *)
(* letters), a sign, and fields; its text is what writing it out gives.    *)
(* The other texts hold nothing that reads as a number.                    *)
(***************************************************************************)
RECURSIVE DigitsOf(_)
DigitsOf(n) ==
    IF n < 10 THEN <<Digits[n + 1]>>
    ELSE DigitsOf(n \div 10) \o <<Digits[(n % 10) + 1]>>
Pad2(n) == IF n < 10 THEN <<"0">> \o DigitsOf(n) ELSE DigitsOf(n)
SignText(sign) == IF sign = "" THEN << >> ELSE <<sign>>

\* tenths, minutes, seconds: -1 when the field is not written
Written(form, unit, whole, tenths, minutes, seconds) ==
    IF form = "plain"
    THEN DigitsOf(whole) \o (IF tenths < 0 THEN << >> ELSE <<".">> \o DigitsOf(tenths))
    ELSE IF form = "colon"
    THEN Pad2(whole) \o <<":">> \o Pad2(minutes)
            \o (IF seconds < 0 THEN << >> ELSE <<":">> \o Pad2(seconds))
    ELSE Pad2(whole) \o <<unit>>
            \o (IF minutes < 0 THEN << >> ELSE Pad2(minutes) \o <<"m">>)
            \o (IF seconds < 0 THEN << >> ELSE Pad2(seconds) \o <<"s">>)

Sample(form, unit, sign, fields) ==
    [form |-> form, sign |-> sign,
     bare |-> Written(form, unit, fields[1], fields[2], fields[3], fields[4]),
     text |-> SignText(sign)
                 \o Written(form, unit, fields[1], fields[2], fields[3], fields[4]),
     magnitude |-> fields[1] * ArcsecPerUnit
                      + (IF fields[2] < 0 THEN 0 ELSE fields[2] * (ArcsecPerUnit \div 10))
                      + (IF fields[3] < 0 THEN 0 ELSE fields[3] * 60)
                      + (IF fields[4] < 0 THEN 0 ELSE fields[4])]

Unreadable(text) ==
    [form |-> "none", sign |-> "", bare |-> text, text |-> text, magnitude |-> 0]

RaSamples ==
    { Sample("plain", "h", sign, f) :
        sign \in {"", "-"},
        f \in { <<0, -1, -1, -1>>, <<5, -1, -1, -1>>, <<12, 5, -1, -1>>,
                <<24, -1, -1, -1>>, <<24, 1, -1, -1>>, <<25, -1, -1, -1>>,
                <<400, -1, -1, -1>> } }
    \cup { Sample("colon", "h", "", <<h, -1, m, sec>>) :
             h \in {0, 12, 23}, m \in {0, 30}, sec \in {-1, 30} }
    \cup { Sample("unit", "h", "", <<h, -1, m, sec>>) :
             h \in {0, 5}, m \in {-1, 30}, sec \in {-1, 15} }
    \cup { Unreadable(t) :
             t \in { << >>, <<" ">>, <<"a", "b", "c">>, <<"h">>, <<"1", "2", "a">> } }

DecSamples ==
    { Sample(fs[1], "d", sign, fs[2]) :
        sign \in {"", "-", "+"},
        fs \in { <<"plain", <<0, 5, -1, -1>> >>, <<"plain", <<45, -1, -1, -1>> >>,
                 <<"plain", <<95, -1, -1, -1>> >>,
                 <<"colon", <<0, -1, 30, 0>> >>, <<"colon", <<45, -1, 30, -1>> >>,
                 <<"colon", <<89, -1, 59, 30>> >>,
                 <<"unit", <<0, -1, 30, 0>> >>, <<"unit", <<45, -1, -1, -1>> >>,
                 <<"unit", <<12, -1, 30, 15>> >> } }
    \cup { Unreadable(t) :
             t \in { << >>, <<"-">>, <<"a", "b", "c">>, <<"d">> } }

NoRect == [x |-> 0, y |-> 0, w |-> 0, h |-> 0]

\* no function is being applied on its own
NoCall == [fn |-> "none"]
PureIdle == pureIn = NoCall /\ pureOut = NoCall /\ purePc = "idle"

(***************************************************************************)
(* The neighbour resolver and the grid builder on their own: for every     *)
(* pixel of the patch, the library's eight slots with any set of them      *)
(* turned into -1 (no neighbour there).                                    *)
(***************************************************************************)
GridInputs ==
    /\ \E centerPixel \in PatchPixels, lost \in SUBSET (1 .. 8) :
         pureIn = [fn |-> "grid", centerPixel |-> centerPixel,
                   neighborArray |->
                       [i \in 1 .. 8 |-> IF i \in lost THEN -1
                                         ELSE neighbors(centerPixel)[i]]]
    /\ pureOut = NoCall
    /\ purePc = "input"

(***************************************************************************)
(* calculateHealPixel and healpixToSkyPosition on their own.  Positions    *)
(* are the pixel centres of the patch, points off the centres, and points  *)
(* beyond the poles; orders run from -2 to MaxOrderIn, and for a negative  *)
(* order the shift 1LL << order is undefined, so its result is any of      *)
(* ShiftOutcomes; pixel ids run from below 0 to above the last pixel.      *)
(***************************************************************************)
PatchPositions ==
    { [ra |-> (pix2ang(q).ra + dra + FullCircle) % FullCircle,
       dec |-> pix2ang(q).dec + ddec, name |-> "in"] :
          q \in PatchPixels, dra \in {0}, ddec \in {0, OffCentre} }

BeyondPoles ==
    { [ra |-> 0, dec |-> FullCircle \div 4 + 3600, name |-> "beyond north"],
      [ra |-> 0, dec |-> -(FullCircle \div 4) - 1, name |-> "beyond south"] }

ShiftOutcomes == {-1, 0, 2 ^ 4}

PixelInputs ==
    /\ \E position \in PatchPositions \cup BeyondPoles,
          order \in (-2) .. MaxOrderIn :
         \E undefinedShift \in IF order < 0 THEN ShiftOutcomes ELSE {0} :
            pureIn = [fn |-> "pixel", position |-> position, order |-> order,
                      undefinedShift |-> undefinedShift]
    /\ healpixLib \in [checksPixel : {FALSE}, stdErrors : BOOLEAN]
    /\ pureOut = NoCall
    /\ purePc = "input"

PositionInputs ==
    /\ \E pixel \in (-PixelSlack) .. (GridDim * SkyCols - 1 + PixelSlack) :
         pureIn = [fn |-> "position", pixel |-> pixel]
    /\ healpixLib \in [checksPixel : BOOLEAN, stdErrors : {TRUE}]
    /\ pureOut = NoCall
    /\ purePc = "input"

PixelStep ==
    /\ purePc = "input"
    /\ pureIn.fn = "pixel"
    /\ pureOut' = [fn |-> "pixel",
                   result |-> calculateHealPixelAt(pureIn.position, pureIn.order,
                                                   pureIn.undefinedShift)]
    /\ purePc' = "done"
    /\ UNCHANGED <<pureIn, flowVars, cropVars, libVars, appVars>>

PositionStep ==
    /\ purePc = "input"
    /\ pureIn.fn = "position"
    /\ pureOut' = [fn |-> "position", result |-> healpixToSkyPosition(pureIn.pixel)]
    /\ purePc' = "done"
    /\ UNCHANGED <<pureIn, flowVars, cropVars, libVars, appVars>>

(***************************************************************************)
(* The URL builders on their own: every order the library has, pixel ids   *)
(* at both ends of the map of that order and around multiples of the       *)
(* directory span, two base URLs and two formats.                          *)
(***************************************************************************)
NPix(order) == 12 * 4 ^ order

UrlPixels(order) ==
    { pixel \in {0, 1, DirSpan - 1, DirSpan, DirSpan + 1,
                 NPix(order) \div 2, NPix(order) - DirSpan,
                 NPix(order) - 2, NPix(order) - 1}
                    \cup {k * DirSpan - 1 : k \in 2 .. UrlSpans} :
          pixel >= 0 /\ pixel < NPix(order) }

UrlInputs ==
    /\ \E order \in HealpixOrders :
         \E pixel \in UrlPixels(order),
            baseUrl \in {DSSColorBase, "http://localhost/hips"},
            format \in {"jpg", "png"} :
            pureIn = [fn |-> "url", order |-> order, pixel |-> pixel,
                      baseUrl |-> baseUrl, format |-> format]
    /\ pureOut = NoCall
    /\ purePc = "input"

UrlStep ==
    /\ purePc = "input"
    /\ pureIn.fn = "url"
    /\ LET info == [baseUrl |-> pureIn.baseUrl, format |-> pureIn.format]
       IN  pureOut' = [fn |-> "url",
                       dss |-> buildDSSUrl(info, pureIn.order, pureIn.pixel),
                       twomass |-> build2MASSUrl(info, pureIn.order, pureIn.pixel),
                       rubin |-> buildRubinUrl(info, pureIn.order, pureIn.pixel),
                       generic |-> buildGenericHipsUrl(pureIn.baseUrl, pureIn.format,
                                                       pureIn.order, pureIn.pixel),
                       tile |-> tileUrl(pureIn.pixel)]
    /\ purePc' = "done"
    /\ UNCHANGED <<pureIn, flowVars, cropVars, libVars, appVars>>

\* getNeighboringPixels, getDirectionalNeighbors and createProper3x3Grid,
\* applied to the same library answer
GridStep ==
    /\ purePc = "input"
    /\ pureIn.fn = "grid"
    /\ pureOut' = [fn |-> "grid",
                   list |-> appendValid(pureIn.neighborArray, 8),
                   map |-> insertValid(pureIn.neighborArray),
                   grid |-> gridRows(insertValid(pureIn.neighborArray),
                                     pureIn.centerPixel)]
    /\ purePc' = "done"
    /\ UNCHANGED <<pureIn, flowVars, cropVars, libVars, appVars>>

(***************************************************************************)
(* calculateHealPixel followed by healpixToSkyPosition and by               *)
(* calculateHealPixel again, at one order.  The positions are points of     *)
(* the patch, on the pixel centres and OffCentre arcseconds off them in     *)
(* each direction (across RA 0 as well), as they are and a whole turn       *)
(* further in RA.                                                           *)
(***************************************************************************)
RoundTripPositions ==
    { [ra |-> ((pix2ang(q).ra + dra + FullCircle) % FullCircle) + turn * FullCircle,
       dec |-> pix2ang(q).dec + ddec, name |-> "sample"] :
          q \in PatchPixels, dra \in {-OffCentre, 0, OffCentre},
          ddec \in {-OffCentre, 0, OffCentre}, turn \in {0, 1} }

RoundTripInputs ==
    /\ \E position \in RoundTripPositions, order \in 0 .. MaxOrderIn :
         pureIn = [fn |-> "roundtrip", position |-> position, order |-> order]
    /\ LibAny
    /\ pureOut = NoCall
    /\ purePc = "input"

RoundTripStep ==
    /\ purePc = "input"
    /\ pureIn.fn = "roundtrip"
    /\ LET pixel == calculateHealPixelAt(pureIn.position, pureIn.order, 0).value
           centre == healpixToSkyPosition(pixel)
       IN  pureOut' = [fn |-> "roundtrip", pixel |-> pixel, centre |-> centre,
                       again |-> calculateHealPixelAt(centre, pureIn.order, 0).value]
    /\ purePc' = "done"
    /\ UNCHANGED <<pureIn, flowVars, cropVars, libVars, appVars>>

\* the parser applied to a written right ascension and declination
ParseInputs ==
    /\ \E raSample \in RaSamples, decSample \in DecSamples :
         pureIn = [fn |-> "parse", ra |-> raSample, dec |-> decSample]
    /\ pureOut = NoCall
    /\ purePc = "input"

(***************************************************************************)
(* calculateTargetPixelPosition on its own.  The tile list is empty or the  *)
(* plan for a pixel of the patch with at most MaxLost of the library's      *)
(* slots answering -1; the target is a point of the patch, a point beyond   *)
(* a pole, a point on the other side of the sky, or a coordinate so large   *)
(* that the rounded pixel offsets do not fit an int.  For the last the      *)
(* closest tile is any tile and each conversion to int leaves any of        *)
(* CastOutcomes.                                                           *)
(***************************************************************************)
MaxLost == 1

FarTargets ==
    { [ra |-> FullCircle \div 2, dec |-> 0, name |-> "antipode"],
      [ra |-> FullCircle \div 4, dec |-> -(FullCircle \div 8), name |-> "south east"] }

BeyondInt == [ra |-> IntMax, dec |-> IntMax, name |-> "beyond int"]

\* points just west of RA 0, inside the pixels whose centres lie east of it
SeamTargets ==
    { [ra |-> (pix2ang(PixelAt(row, 2)).ra - OffCentre + FullCircle) % FullCircle,
       dec |-> pix2ang(PixelAt(row, 2)).dec, name |-> "west of RA 0"] :
          row \in 0 .. (GridDim - 1) }

TileLists ==
    {<< >>} \cup
    { planTiles(gridRows(insertValid([i \in 1 .. 8 |->
                                         IF i \in lost THEN -1
                                         ELSE neighbors(centerPixel)[i]]),
                         centerPixel)) :
        centerPixel \in PatchPixels,
        lost \in {l \in SUBSET (1 .. 8) : Cardinality(l) <= MaxLost} }

TargetInputs ==
    /\ \/ \E tiles \in TileLists,
              target \in PatchPositions \cup SeamTargets \cup BeyondPoles
                            \cup FarTargets :
             pureIn = [fn |-> "target", tiles |-> tiles, target |-> target,
                       anchor |-> ContainingTile(tiles, target),
                       castRA |-> 0, castDec |-> 0]
       \/ \E anchor \in 1 .. NTiles, castRA \in CastOutcomes,
              castDec \in CastOutcomes :
             pureIn = [fn |-> "target",
                       tiles |-> createTileGrid(pix2ang(PixelAt(1, 1))),
                       target |-> BeyondInt, anchor |-> anchor,
                       castRA |-> castRA, castDec |-> castDec]
    /\ pureOut = NoCall
    /\ purePc = "input"

TargetStep ==
    /\ purePc = "input"
    /\ pureIn.fn = "target"
    /\ pureOut' = [fn |-> "target",
                   pixel |-> IF pureIn.target = BeyondInt
                             THEN placeTarget(pureIn.tiles[pureIn.anchor],
                                              pureIn.castRA, pureIn.castDec)
                             ELSE calculateTargetPixelPosition(pureIn.tiles,
                                                               pureIn.target)]
    /\ purePc' = "done"
    /\ UNCHANGED <<pureIn, flowVars, cropVars, libVars, appVars>>

CropIdle ==
    /\ rawMosaic = [width |-> RawMosaicSize, height |-> RawMosaicSize]
    /\ targetPixel = [x |-> 0, y |-> 0]
    /\ cropRect = NoRect
    /\ cropPc = "idle"

CropInputs ==
    /\ \E W \in CanvasSides, H \in CanvasSides :
         /\ rawMosaic = [width |-> W, height |-> H]
         /\ \E tx \in TargetCoords(W, H), ty \in TargetCoords(H, W) :
              targetPixel = [x |-> tx, y |-> ty]
    /\ cropRect = NoRect
    /\ cropPc = "input"

CropStep ==
    /\ cropPc = "input"
    /\ cropRect' = cropMosaicToCenter(rawMosaic.width, rawMosaic.height,
                                      targetPixel.x, targetPixel.y)
    /\ cropPc' = "done"
    /\ UNCHANGED <<rawMosaic, targetPixel>>


(***************************************************************************)
(* The state record of the handlers, and its installation as next state     *)
(***************************************************************************)
St ==
    [custom |-> m_customTarget, actual |-> m_actualTarget, tiles |-> m_tiles,
     idx |-> m_currentTileIndex, full |-> m_fullMosaic, replies |-> replies,
     timers |-> timers, phase |-> phase, cur |-> cur, attempts |-> attempts,
     emitted |-> emitted, assembles |-> assembles, report |-> report,
     stale |-> stale, env |-> env]

Install(s) ==
    /\ m_customTarget' = s.custom
    /\ m_actualTarget' = s.actual
    /\ m_tiles' = s.tiles
    /\ m_currentTileIndex' = s.idx
    /\ m_fullMosaic' = s.full
    /\ replies' = s.replies
    /\ timers' = s.timers
    /\ phase' = s.phase
    /\ cur' = s.cur
    /\ attempts' = s.attempts
    /\ emitted' = s.emitted
    /\ assembles' = s.assembles
    /\ report' = s.report
    /\ stale' = s.stale
    /\ env' = s.env

\* the outside world a run of processNextTile meets: the tile file it looks
\* for when a tile is left, the report file it opens when none is
FilesMet(s) == IF s.idx >= Len(s.tiles) THEN {NoFile} ELSE FileStates
ReportOpens(s) == IF s.idx >= Len(s.tiles) THEN BOOLEAN ELSE {TRUE}

NoTarget == [ra |-> 0, dec |-> 0, name |-> ""]
NoEvent == [kind |-> "none", tileIndex |-> 0, result |-> "none"]
StepEvent(kind) == [kind |-> kind, tileIndex |-> 0, result |-> "none"]
\* a timer's processNextTile, with the tile index it found
TimerEvent == [kind |-> "timer", tileIndex |-> m_currentTileIndex, result |-> "none"]

\* targets handed to createCustomMosaic: the centre of a pixel, a point in the
\* same pixel away from its centre, and the centre of the seven-neighbour pixel
Targets ==
    LET c == healpixToSkyPosition(PixelAt(1, 1))
        e == healpixToSkyPosition(SevenNeighbourPixel)
    IN  { [ra |-> c.ra, dec |-> c.dec, name |-> "centre"],
          [ra |-> c.ra - 400, dec |-> c.dec + 300, name |-> "offcentre"],
          [ra |-> e.ra, dec |-> e.dec, name |-> "seven"] }

(***************************************************************************)
(* processNextTile on its own, at every tile index of a freshly planned    *)
(* grid and for every local file it can find there: missing, under 1024    *)
(* bytes, with or without the JPEG signature, decodable or not.            *)
(***************************************************************************)
LocalFiles ==
    {f \in [exists : BOOLEAN, bigEnough : BOOLEAN, magic : BOOLEAN, decodes : BOOLEAN] :
        (f.bigEnough => f.exists) /\ (f.magic => f.exists) /\ (f.decodes => f.magic)}

ReuseInputs ==
    /\ \E target \in Targets, tileIndex \in 0 .. (NTiles - 1), file \in LocalFiles :
         pureIn = [fn |-> "reuse", target |-> target, tileIndex |-> tileIndex,
                   file |-> file]
    /\ pureOut = NoCall
    /\ purePc = "input"

\* the creator in the middle of a workflow for pureIn.target, about to look
\* at tile pureIn.tileIndex
ReuseBefore ==
    [St EXCEPT !.custom = pureIn.target, !.actual = pureIn.target,
               !.tiles = createTileGrid(pureIn.target),
               !.idx = pureIn.tileIndex, !.phase = "Fetching"]

ReuseStep ==
    /\ purePc = "input"
    /\ pureIn.fn = "reuse"
    /\ LET before == ReuseBefore
           after == processNextTile(before, before.cur, pureIn.file, TRUE)
       IN  pureOut' = [fn |-> "reuse",
                       returned |-> checkExistingTile(
                                        before.tiles[pureIn.tileIndex + 1],
                                        pureIn.file)[1],
                       tile |-> after.tiles[pureIn.tileIndex + 1],
                       idx |-> after.idx,
                       replies |-> after.replies,
                       timers |-> after.timers]
    /\ purePc' = "done"
    /\ UNCHANGED <<pureIn, flowVars, cropVars, libVars, appVars>>

\* setCustomCoordinates applied to a written right ascension and declination
SetCoordinatesStep ==
    /\ purePc = "input"
    /\ pureIn.fn = "parse"
    /\ Install(setCustomCoordinates(St, pureIn.ra.text, pureIn.dec.text, "typed"))
    /\ pureOut' = [fn |-> "parse", returned |-> TRUE]
    /\ purePc' = "done"
    /\ UNCHANGED <<calls, lastEvent, pureIn, cropVars, libVars, appVars>>

\* SurveyDownloader after its constructor
SurveyIdle ==
    /\ m_testQueue = << >>
    /\ m_downloadedImages = << >>
    /\ m_currentName = ""
    /\ queueTimers = 0
    /\ allComplete = 0
    /\ queued = << >>
    /\ handed = << >>

\* ProperHipsClient after its constructor, with the surveys and the test
\* positions given
SweepIdleWith(surveys, positions) ==
    /\ m_surveys = surveys
    /\ m_testPositions = positions
    /\ m_results = << >>
    /\ m_currentSurveyIndex = 0
    /\ m_currentPositionIndex = 0
    /\ hipsReplies = << >>
    /\ hipsTimers = 0
    /\ testingComplete = 0
    /\ tested = << >>
    /\ sweeps = 0
    /\ extras = 0

\* setupSurveys registers DSS2_Color alone
SweepIdle ==
    SweepIdleWith(<<"DSS2_Color">>,
                  <<[ra |-> 0, dec |-> 0, name |-> "Equator_0h"]>>)

\* a byte array: empty, or the body of the id-th request (FITS that cfitsio
\* reads or not), or the PNG of a composite; an image: null (the empty
\* tuple), <<n>> read from the body of request n, or a composite <<i, r, b>>
NoData == [kind |-> "empty", id |-> 0, parses |-> FALSE]
NullQImage == << >>
NothingWritten == [kind |-> "none", data |-> NoData, planes |-> << >>,
                   latest |-> [kind |-> "none", data |-> NoData]]

\* DSSViewerWindow after its constructor, an object selected
FetcherIdle ==
    /\ fetchingComposite = FALSE
    /\ compositeFetchCount = 0
    /\ irImage = NullQImage /\ redImage = NullQImage /\ blueImage = NullQImage
    /\ currentImage = NullQImage
    /\ currentImageData = NoData
    /\ controlsEnabled = TRUE
    /\ saveEnabled = FALSE
    /\ fetchReplies = << >>
    /\ requested = << >>
    /\ composites = 0
    /\ savedFile = NothingWritten
    /\ fetches = 0
    /\ latest = [kind |-> "none", data |-> NoData]

(***************************************************************************)
(* ImageCache (src/matcher/ImageCache.h).  A request is its right           *)
(* ascension (in tenths of a microdegree), survey and format; the cache     *)
(* key is the MD5 of the parameters written out, the right ascension to     *)
(* six decimals, taken here as the written parameters themselves.           *)
(***************************************************************************)
MaxClock == 2
MaxAccess == 2

CacheParams ==
    { [ra |-> 0, survey |-> "poss2ukstu_red", format |-> "fits"],
      [ra |-> 4, survey |-> "poss2ukstu_red", format |-> "fits"],
      [ra |-> 10, survey |-> "poss2ukstu_red", format |-> "gif"] }
CacheData == { << >>, <<7>>, <<8, 8>> }

\* generateCacheKey: "%1_..._%6" with ra written with 'f', 6
generateCacheKey(p) ==
    [ra |-> Round(p.ra, 10), survey |-> p.survey, format |-> p.format]

\* getCachePath: the key with the extension "fits" or "gif"
getCachePath(cacheKey, format) ==
    [key |-> cacheKey, ext |-> IF format = "fits" THEN "fits" ELSE "gif"]

CacheKeys == { generateCacheKey(p) : p \in CacheParams }
CachePaths == [key : CacheKeys, ext : {"fits", "gif"}]
Missing == [exists |-> FALSE, data |-> << >>]
NoEntry == [present |-> FALSE, format |-> "", lastAccess |-> 0, accessCount |-> 0,
            size |-> 0]

\* ImageCache after its constructor, on an empty cache directory
CacheIdle ==
    /\ cacheFiles = [f \in CachePaths |-> Missing]
    /\ metadata = [k \in CacheKeys |-> NoEntry]
    /\ now = 0
    /\ recent = [k \in CacheKeys |-> << >>]
    /\ got = [called |-> FALSE, cached |-> FALSE, data |-> << >>, recent |-> << >>]
    /\ lastOp = "none"

\* the programs around the mosaic creator, not started
AppIdle == SurveyIdle /\ SweepIdle /\ FetcherIdle /\ CacheIdle

FlowInit ==
    /\ m_customTarget = NoTarget
    /\ m_actualTarget = NoTarget
    /\ m_tiles = << >>
    /\ m_currentTileIndex = 0
    /\ m_fullMosaic = NullMosaic
    /\ replies = << >>
    /\ timers = << >>
    /\ phase = "Idle"
    /\ calls = 0
    /\ cur = 0
    /\ attempts = [i \in 0 .. (NTiles - 1) |-> 0]
    /\ emitted = 0
    /\ assembles = 0
    /\ report = NoReport
    /\ stale = FALSE
    /\ env = NoTally
    /\ lastEvent = NoEvent

\* a target north of the pole: Dec +91 degrees, as typed by a user
BadTargets == { [ra |-> 0, dec |-> FullCircle \div 4 + 3600, name |-> "beyond"] }

\* no reply in flight, no timer pending, no workflow under way
Idle == replies = << >> /\ timers = << >> /\ phase # "Fetching"

\* the caller starts a mosaic when the creator is idle (as SurveyDownloader does)
CallWhenIdle ==
    /\ Idle
    /\ \E target \in Targets, file \in FileStates :
         LET s2 == createCustomMosaic(St, target, cur, file, TRUE)
         IN  WithinBudget(s2) /\ Install(s2)
    /\ lastEvent' = StepEvent("call")
    /\ UNCHANGED <<calls, cropVars, pureVars, libVars, appVars>>

\* the caller starts a mosaic for a target the pixelisation does not accept
CallOutOfRange ==
    /\ Idle
    /\ \E target \in BadTargets, file \in FileStates :
         LET s2 == createCustomMosaic(St, target, cur, file, TRUE)
         IN  WithinBudget(s2) /\ Install(s2)
    /\ lastEvent' = StepEvent("call")
    /\ UNCHANGED <<calls, cropVars, pureVars, libVars, appVars>>

\* a caller that does not wait: createCustomMosaic at any time
CallAnyTime ==
    /\ calls < MaxCalls
    /\ \E target \in Targets, file \in FileStates :
         LET s2 == createCustomMosaic(St, target, calls + 1, file, TRUE)
         IN  WithinBudget(s2) /\ Install(s2)
    /\ calls' = calls + 1
    /\ lastEvent' = StepEvent("call")
    /\ UNCHANGED <<cropVars, pureVars, libVars, appVars>>

\* a single-shot timer fires: processNextTile
TimerFires ==
    /\ \E n \in 1 .. Len(timers), file \in FilesMet(St), opens \in ReportOpens(St) :
         LET s2 == processNextTile([St EXCEPT !.timers = RemoveAt(@, n)],
                                   timers[n], file, opens)
         IN  WithinBudget(s2) /\ Install(s2)
    /\ lastEvent' = TimerEvent
    /\ UNCHANGED <<calls, cropVars, pureVars, libVars, appVars>>

\* a reply finishes on its own: onTileDownloaded
ReplyFinished ==
    /\ \E n \in 1 .. Len(replies), result \in {"ok", "undecodable", "error"} :
         LET s2 == onTileDownloaded(St, n, result)
         IN  /\ WithinBudget(s2)
             /\ Install(s2)
             /\ lastEvent' = [kind |-> "reply", tileIndex |-> replies[n].tileIndex,
                              result |-> result]
    /\ UNCHANGED <<calls, cropVars, pureVars, libVars, appVars>>

\* the 15 s timer aborts a reply still in flight: finished() with an error
AbortTimeout ==
    /\ \E n \in 1 .. Len(replies) :
         LET s2 == onTileDownloaded(St, n, "timeout")
         IN  /\ WithinBudget(s2)
             /\ Install(s2)
             /\ lastEvent' = [kind |-> "reply", tileIndex |-> replies[n].tileIndex,
                              result |-> "timeout"]
    /\ UNCHANGED <<calls, cropVars, pureVars, libVars, appVars>>

(***************************************************************************)
(* Specifications                                                           *)
(***************************************************************************)
\* the tile workflow with a caller that waits for the creator to be idle
Init == FlowInit /\ AppIdle /\ CropIdle /\ PureIdle /\ LibPlain
Next == CallWhenIdle \/ TimerFires \/ ReplyFinished \/ AbortTimeout
Spec == Init /\ [][Next]_vars

\* the same, with every timer firing and every reply finishing or timing out
\* A step of TimerFires, and a step of ReplyFinished or AbortTimeout, told by
\* the event the step records; the first can be taken exactly when a timer is
\* pending, the second exactly when a reply is in flight.
TimerStep ==
    /\ timers # << >>
    /\ lastEvent' = TimerEvent
ReplyStep ==
    /\ replies # << >>
    /\ \E i \in 0 .. (NTiles - 1), result \in {"ok", "undecodable", "error", "timeout"} :
         lastEvent' = [kind |-> "reply", tileIndex |-> i, result |-> result]

FairSpec ==
    /\ Init
    /\ [][Next]_vars
    /\ WF_lastEvent(TimerStep)
    /\ WF_lastEvent(ReplyStep)

\* the tile workflow with a caller that calls createCustomMosaic at any time
NextReentrant == CallAnyTime \/ TimerFires \/ ReplyFinished \/ AbortTimeout
SpecReentrant == Init /\ [][NextReentrant]_vars

\* cropMosaicToCenter on its own, over canvases of any size
InitCrop == FlowInit /\ AppIdle /\ CropInputs /\ PureIdle /\ LibPlain
NextCrop == CropStep /\ UNCHANGED <<flowVars, pureVars, libVars, appVars>>
SpecCrop == InitCrop /\ [][NextCrop]_vars

\* the URL builders on their own
InitUrl == FlowInit /\ AppIdle /\ CropIdle /\ LibPlain /\ UrlInputs
NextUrl == UrlStep
SpecUrl == InitUrl /\ [][NextUrl]_vars

\* the reuse of local tile files on its own
InitReuse == FlowInit /\ AppIdle /\ CropIdle /\ LibPlain /\ ReuseInputs
NextReuse == ReuseStep
SpecReuse == InitReuse /\ [][NextReuse]_vars

\* calculateHealPixel and healpixToSkyPosition on their own
InitPixel == FlowInit /\ AppIdle /\ CropIdle /\ (PixelInputs \/ PositionInputs)
NextPixel == PixelStep \/ PositionStep
SpecPixel == InitPixel /\ [][NextPixel]_vars

\* the tile workflow for targets the pixelisation does not accept, with a
\* library whose errors reach the catch in calculateHealPixel
InitSentinel ==
    /\ FlowInit /\ AppIdle /\ CropIdle /\ PureIdle
    /\ healpixLib \in [checksPixel : BOOLEAN, stdErrors : {TRUE}]
NextSentinel == CallOutOfRange \/ TimerFires \/ ReplyFinished \/ AbortTimeout
SpecSentinel == InitSentinel /\ [][NextSentinel]_vars

\* the neighbour resolver and the grid builder on their own
InitGrid == FlowInit /\ AppIdle /\ CropIdle /\ LibPlain /\ GridInputs
NextGrid == GridStep
SpecGrid == InitGrid /\ [][NextGrid]_vars

InitRoundTrip == FlowInit /\ AppIdle /\ CropIdle /\ RoundTripInputs
NextRoundTrip == RoundTripStep
SpecRoundTrip == InitRoundTrip /\ [][NextRoundTrip]_vars

InitParse == FlowInit /\ AppIdle /\ CropIdle /\ LibPlain /\ ParseInputs
NextParse == SetCoordinatesStep
SpecParse == InitParse /\ [][NextParse]_vars

InitTarget == FlowInit /\ AppIdle /\ CropIdle /\ LibPlain /\ TargetInputs
NextTarget == TargetStep
SpecTarget == InitTarget /\ [][NextTarget]_vars

(***************************************************************************)
(* C1: for every canvas and every target pixel inside it, the crop          *)
(* rectangle lies fully inside the canvas and its side is                   *)
(* min(1200, width, height).                                                *)
(***************************************************************************)
CropContainment ==
    cropPc = "done" =>
        /\ 0 <= cropRect.x
        /\ cropRect.x + cropRect.w <= rawMosaic.width
        /\ 0 <= cropRect.y
        /\ cropRect.y + cropRect.h <= rawMosaic.height
        /\ cropRect.w = Min(CropSize, Min(rawMosaic.width, rawMosaic.height))
        /\ cropRect.h = cropRect.w

\* C1 witness: a window that had to be slid back from the right and bottom edges
CropContainmentWitness ==
    /\ cropPc = "done"
    /\ rawMosaic.width > CropSize
    /\ rawMosaic.height > CropSize
    /\ targetPixel.x = rawMosaic.width - 1
    /\ targetPixel.y = rawMosaic.height - 1
    /\ cropRect.x = rawMosaic.width - CropSize
    /\ cropRect.y = rawMosaic.height - CropSize

(***************************************************************************)
(* C3: a target at least size/2 pixels away from the first and the last     *)
(* pixel of each axis lands exactly on (size/2, size/2) of the output; on   *)
(* an axis where it lands elsewhere the window is flush with an edge of     *)
(* the canvas, the target is nearer than size/2 to that edge, and the       *)
(* window keeps its size.                                                   *)
(***************************************************************************)
OffsetInCrop(t, origin) == t - origin

CropCentering ==
    cropPc = "done" =>
        LET s == cropRect.w
            W == rawMosaic.width
            H == rawMosaic.height
            tx == targetPixel.x
            ty == targetPixel.y
            cx == OffsetInCrop(tx, cropRect.x)
            cy == OffsetInCrop(ty, cropRect.y)
        IN  /\ (tx >= s \div 2 /\ (W - 1) - tx >= s \div 2) => cx = s \div 2
            /\ (ty >= s \div 2 /\ (H - 1) - ty >= s \div 2) => cy = s \div 2
            /\ cx # s \div 2 =>
                 \/ (cropRect.x = 0 /\ tx < s \div 2)
                 \/ (cropRect.x = W - s /\ (W - 1) - tx < s \div 2)
            /\ cy # s \div 2 =>
                 \/ (cropRect.y = 0 /\ ty < s \div 2)
                 \/ (cropRect.y = H - s /\ (H - 1) - ty < s \div 2)
            /\ s = Min(CropSize, Min(W, H))
            /\ cropRect.h = s

\* C3 witness: one axis centred, the other slid flush with the left edge
CropCenteringWitness ==
    /\ cropPc = "done"
    /\ rawMosaic.width = RawMosaicSize
    /\ targetPixel.x = 1
    /\ cropRect.x = 0
    /\ targetPixel.y = CropSize \div 2 + 1
    /\ cropRect.y = 1
    /\ OffsetInCrop(targetPixel.y, cropRect.y) = CropSize \div 2

(***************************************************************************)
(* C2: after assembleFinalMosaicCentered the centre pixel (width/2,         *)
(* height/2) of the output image is, for every target, the raw-mosaic       *)
(* pixel that calculateTargetPixelPosition computed for the target.         *)
(* The code does not keep this: the crop window is slid back inside the     *)
(* 1536 x 1536 canvas, so a target pixel nearer than 600 pixels to a canvas *)
(* edge is not at the centre of the output.                                 *)
(***************************************************************************)
TargetPixelNow == calculateTargetPixelPosition(m_tiles, m_actualTarget)

OutputCentreIsTargetPixel ==
    phase = "Done" =>
        /\ m_fullMosaic.cropX + m_fullMosaic.width \div 2 = TargetPixelNow.x
        /\ m_fullMosaic.cropY + m_fullMosaic.height \div 2 = TargetPixelNow.y

(***************************************************************************)
(* C4: in a workflow started by createCustomMosaic at most one tile fetch   *)
(* is in flight at any time, it is the fetch of the current tile, and a     *)
(* fetch is issued only when no fetch is in flight and no other timer is    *)
(* pending, by createCustomMosaic or by the settling timer that has fired.  *)
(***************************************************************************)
FetchesOneAtATime ==
    /\ [](/\ Len(replies) + Len(timers) <= 1
          /\ \A n \in 1 .. Len(replies) : replies[n].tileIndex = m_currentTileIndex)
    /\ [][Len(replies') > Len(replies) =>
            /\ replies = << >>
            /\ timers' = << >>
            /\ lastEvent'.kind \in {"call", "timer"}
            /\ lastEvent'.kind = "timer" => Len(timers) = 1
            /\ \A i \in 0 .. (NTiles - 1) :
                 i < m_currentTileIndex' => attempts'[i] = 1]_vars

\* C4 witness: the fetch of the third tile is in flight, after the second tile's
\* fetch failed and the first tile was passed
FetchesOneAtATimeWitness ==
    /\ Len(replies) = 1
    /\ replies[1].tileIndex = 2
    /\ timers = << >>
    /\ m_tiles[1].downloaded
    /\ ~m_tiles[2].downloaded
    /\ lastEvent.kind = "timer"

(***************************************************************************)
(* C5: assembleFinalMosaicCentered is entered only after each of the nine   *)
(* planned tiles has been attempted exactly once (a reuse check that hit,   *)
(* or a fetch that finished); no tile is attempted twice in a workflow, and *)
(* the assembly is entered once.                                            *)
(***************************************************************************)
AssemblyAfterNineAttempts ==
    /\ \A i \in 0 .. (NTiles - 1) : attempts[i] <= 1
    /\ \A i \in 0 .. (NTiles - 1) :
         attempts[i] = IF \/ i < m_currentTileIndex
                          \/ (i = m_currentTileIndex /\ replies # << >>)
                       THEN 1 ELSE 0
    /\ assembles <= 1
    /\ assembles = 1 =>
         /\ \A i \in 0 .. (NTiles - 1) : attempts[i] = 1
         /\ m_currentTileIndex = NTiles
         /\ replies = << >>
         /\ timers = << >>

\* C5 witness: the assembly has been entered after nine attempts of which one,
\* the fetch of the fifth tile, failed
AssemblyAfterNineAttemptsWitness ==
    /\ assembles = 1
    /\ phase = "Done"
    /\ ~m_tiles[5].downloaded
    /\ \A i \in 0 .. (NTiles - 1) : attempts[i] = 1

(***************************************************************************)
(* C6: after assembly finishes mosaicComplete has been emitted exactly      *)
(* once, both when at least one tile had data and when no tile had data.    *)
(* The code does not keep this: with no tile data the assembly returns      *)
(* without emitting.                                                        *)
(***************************************************************************)
CompletionAlwaysSignalled ==
    assembles > 0 => emitted = 1

(***************************************************************************)
(* C7: when createCustomMosaic is called while an earlier workflow has a    *)
(* fetch in flight or a timer pending, no reply or timer of the earlier     *)
(* workflow touches the tile list or the tile index, and the new workflow   *)
(* attempts each of its nine tiles exactly once, one at a time.             *)
(* The code does not keep this: the earlier reply and timer stay connected  *)
(* and run onTileDownloaded and processNextTile on the new list.            *)
(***************************************************************************)
RepliesOfChain(chain) == {n \in 1 .. Len(replies) : replies[n].chain = chain}

WorkflowsIsolated ==
    /\ ~stale
    /\ \A i \in 0 .. (NTiles - 1) : attempts[i] <= 1
    /\ Cardinality(RepliesOfChain(cur)) <= 1
    /\ assembles <= 1
    /\ assembles = 1 => \A i \in 0 .. (NTiles - 1) : attempts[i] = 1

(***************************************************************************)
(* C8: when every issued request finishes or is aborted by its timeout and  *)
(* every single-shot timer fires, a workflow started by createCustomMosaic  *)
(* reaches assembleFinalMosaicCentered; a fetch that timed out leaves its   *)
(* tile not downloaded, and a fetch is only ever issued for a tile that has *)
(* not been attempted in the workflow.                                      *)
(***************************************************************************)
WorkflowReachesAssembly ==
    /\ (phase = "Fetching") ~> (assembles = 1)
    /\ [](lastEvent.result = "timeout" =>
            /\ ~m_tiles[lastEvent.tileIndex + 1].downloaded
            /\ attempts[lastEvent.tileIndex] = 1
            /\ m_currentTileIndex = lastEvent.tileIndex + 1)
    /\ [][Len(replies') > Len(replies) =>
            LET i == replies'[Len(replies')].tileIndex
            IN  lastEvent'.kind = "timer" => attempts[i] = 0]_vars

\* C8 witness: the fetch of the last tile has timed out and the timer that leads
\* to the assembly is pending
WorkflowReachesAssemblyWitness ==
    /\ lastEvent.kind = "reply"
    /\ lastEvent.result = "timeout"
    /\ lastEvent.tileIndex = NTiles - 1
    /\ m_currentTileIndex = NTiles
    /\ Len(timers) = 1

(***************************************************************************)
(* C9: a failed fetch of tile i (error, timeout abort or undecodable body)  *)
(* leaves tile i not downloaded, leaves every other tile as it was, and the *)
(* workflow goes on: the index moves to i + 1 and a timer is pending.       *)
(***************************************************************************)
FailedFetchIsLocal ==
    [][(lastEvent'.kind = "reply" /\ lastEvent'.result # "ok") =>
         LET i == lastEvent'.tileIndex
         IN  /\ Len(m_tiles') = Len(m_tiles)
             /\ ~m_tiles'[i + 1].downloaded
             /\ \A k \in 1 .. Len(m_tiles) : k # i + 1 => m_tiles'[k] = m_tiles[k]
             /\ m_currentTileIndex = i
             /\ m_currentTileIndex' = i + 1
             /\ Len(timers') = 1
             /\ replies' = << >>
             /\ phase' = "Fetching"]_vars

\* C9 witness: the fetch of the fifth tile returned a body that does not decode,
\* with the four tiles before it downloaded
FailedFetchIsLocalWitness ==
    /\ lastEvent.kind = "reply"
    /\ lastEvent.result = "undecodable"
    /\ lastEvent.tileIndex = 4
    /\ \A k \in 1 .. 4 : m_tiles[k].downloaded
    /\ ~m_tiles[5].downloaded
    /\ m_currentTileIndex = 5

(***************************************************************************)
(* C10: assembleFinalMosaicCentered produces a mosaic if and only if at     *)
(* least one tile has data: then the last generated mosaic is a complete    *)
(* CropSize x CropSize image of the nine cells, each cell showing its       *)
(* tile's image or left blank, and saveProgressReport is called, writing    *)
(* one row per tile when the report file opens; with no tile data nothing   *)
(* is stored and no report is written.                                      *)
(***************************************************************************)
TilesWithData == {k \in 1 .. Len(m_tiles) : HasData(m_tiles[k])}

MosaicShowsTiles ==
    /\ ~m_fullMosaic.isNull
    /\ m_fullMosaic.width = CropSize
    /\ m_fullMosaic.height = CropSize
    /\ \A k \in 1 .. Len(m_tiles) :
         m_fullMosaic.cells[m_tiles[k].gridY * GridDim + m_tiles[k].gridX] =
             IF HasData(m_tiles[k]) THEN m_tiles[k].image ELSE NullImage

RowsNotDownloaded == {k \in 1 .. Len(report.rows) : report.rows[k].downloaded = "NO"}

CentreCell == GridDim + 2

ReportRowsMatchTiles ==
    /\ report.opened =>
         /\ phase = "Done"
         /\ Len(report.rows) = NTiles
         /\ \A k \in 1 .. NTiles :
              /\ report.rows[k].gridX = (k - 1) % GridDim
              /\ report.rows[k].gridY = (k - 1) \div GridDim
              /\ report.rows[k].healpixPixel = m_tiles[k].healpixPixel
              /\ report.rows[k].downloaded \in {"YES", "NO"}
              /\ report.rows[k].downloaded = "YES" <=> m_tiles[k].image # NullImage
              /\ report.rows[k].imageWidth = ImageWidth(m_tiles[k].image)
    /\ (assembles > 0 /\ TilesWithData = (1 .. NTiles) \ {CentreCell}) =>
         /\ phase = "Done"
         /\ ~m_fullMosaic.isNull
         /\ report.opened => RowsNotDownloaded = {CentreCell}

\* C11 witness: the mosaic is complete, only the centre tile has no data, and
\* the report has one NO row, the fifth
ReportRowsMatchTilesWitness ==
    /\ phase = "Done"
    /\ report.opened
    /\ m_tiles[CentreCell].gridX = 1 /\ m_tiles[CentreCell].gridY = 1
    /\ m_tiles[CentreCell].image = NullImage
    /\ \A k \in (1 .. NTiles) \ {CentreCell} : m_tiles[k].image # NullImage
    /\ RowsNotDownloaded = {CentreCell}

(***************************************************************************)
(* C12: in the grid of createProper3x3Grid the middle cell is the centre   *)
(* pixel, every cell whose direction is absent from the neighbour map is   *)
(* the centre pixel (never a negative sentinel), and the rows are          *)
(* NW,N,NE / W,centre,E / SW,S,SE.                                         *)
(***************************************************************************)
\* the (row, column) of each direction in the grid, counted from 1
CellOf(d) ==
    CASE d = "NW" -> <<1, 1>> [] d = "N" -> <<1, 2>> [] d = "NE" -> <<1, 3>>
      [] d = "W"  -> <<2, 1>> [] d = "E" -> <<2, 3>>
      [] d = "SW" -> <<3, 1>> [] d = "S" -> <<3, 2>> [] d = "SE" -> <<3, 3>>

Compass == {"NW", "N", "NE", "W", "E", "SW", "S", "SE"}

GridCell(d) == pureOut.grid[CellOf(d)[1]][CellOf(d)[2]]

GridDone == purePc = "done" /\ pureOut.fn = "grid"

GridCentreAndFallback ==
    GridDone =>
        /\ Len(pureOut.grid) = GridDim
        /\ \A r \in 1 .. GridDim : Len(pureOut.grid[r]) = GridDim
        /\ pureOut.grid[2][2] = pureIn.centerPixel
        /\ \A d \in Compass :
             /\ d \notin DOMAIN pureOut.map => GridCell(d) = pureIn.centerPixel
             /\ d \in DOMAIN pureOut.map => GridCell(d) = pureOut.map[d]
             /\ GridCell(d) >= 0

\* C12 witness: a grid whose north direction had no neighbour and whose
\* north-west one had: the north cell and the middle hold the centre pixel
GridCentreAndFallbackWitness ==
    /\ GridDone
    /\ "N" \notin DOMAIN pureOut.map
    /\ "NW" \in DOMAIN pureOut.map
    /\ pureOut.grid[1][2] = pureIn.centerPixel
    /\ pureOut.grid[2][2] = pureIn.centerPixel
    /\ pureOut.grid[1][1] # pureIn.centerPixel

(***************************************************************************)
(* C13: a pixel value is in more than one cell of the grid only as the     *)
(* centre pixel filling cells whose direction had no neighbour; with       *)
(* eight distinct valid neighbours the nine cells are pairwise distinct    *)
(* and every neighbour is in exactly one cell other than the middle.       *)
(***************************************************************************)
GridCells == (1 .. GridDim) \X (1 .. GridDim)

\* the middle cell, or a cell whose direction has no entry in the map
FilledWithCentre(cell) ==
    \/ cell = <<2, 2>>
    \/ \E d \in Compass : CellOf(d) = cell /\ d \notin DOMAIN pureOut.map

EightDistinct ==
    /\ \A i \in 1 .. 8 : pureIn.neighborArray[i] >= 0
    /\ \A i, j \in 1 .. 8 : i # j => pureIn.neighborArray[i] # pureIn.neighborArray[j]

NoSpuriousDuplicates ==
    GridDone =>
        /\ \A a, b \in GridCells :
             (a # b /\ pureOut.grid[a[1]][a[2]] = pureOut.grid[b[1]][b[2]]) =>
                 /\ pureOut.grid[a[1]][a[2]] = pureIn.centerPixel
                 /\ FilledWithCentre(a)
                 /\ FilledWithCentre(b)
        /\ EightDistinct =>
             /\ \A a, b \in GridCells :
                  a # b => pureOut.grid[a[1]][a[2]] # pureOut.grid[b[1]][b[2]]
             /\ \A i \in 1 .. 8 :
                  Cardinality({cell \in GridCells \ {<<2, 2>>} :
                      pureOut.grid[cell[1]][cell[2]] = pureIn.neighborArray[i]}) = 1

\* C13 witness: eight distinct neighbours, laid out in nine different cells
NoSpuriousDuplicatesWitness ==
    /\ GridDone
    /\ EightDistinct
    /\ Cardinality({pureOut.grid[cell[1]][cell[2]] : cell \in GridCells}) = NTiles

(***************************************************************************)
(* C14: the label a neighbour has in the direction map is the direction    *)
(* that its angular offset to the centre gives: N/S if |ddec| > 2|dra|,    *)
(* E/W if |dra| > 2|ddec|, else the diagonal of the two signs.             *)
(***************************************************************************)
LabelsAreClassified ==
    GridDone =>
        \A d \in DOMAIN pureOut.map :
            d = classifyDirection(healpixToSkyPosition(pureIn.centerPixel),
                                  healpixToSkyPosition(pureOut.map[d]))

(***************************************************************************)
(* C15: a native slot with a negative index is left out of the resolver's  *)
(* result and does not stop the remaining slots: whatever set of slots is  *)
(* negative, the result holds exactly the other slots, each under its own  *)
(* label, so its size is 8 minus the number of negative slots.             *)
(***************************************************************************)
ValidSlots == {i \in 1 .. 8 : pureIn.neighborArray[i] >= 0}

NegativeSlotsOmitted ==
    GridDone =>
        /\ DOMAIN pureOut.map = {directions[i] : i \in ValidSlots}
        /\ \A i \in ValidSlots : pureOut.map[directions[i]] = pureIn.neighborArray[i]
        /\ Cardinality(DOMAIN pureOut.map) = 8 - Cardinality((1 .. 8) \ ValidSlots)
        /\ Len(pureOut.list) = 8 - Cardinality((1 .. 8) \ ValidSlots)
        /\ \A i \in ValidSlots :
             pureOut.list[Cardinality({j \in ValidSlots : j <= i})]
                 = pureIn.neighborArray[i]

\* C15 witness: the first and the fifth slot are negative, the slots after
\* them are not, and the result has the six others
NegativeSlotsOmittedWitness ==
    /\ GridDone
    /\ (1 .. 8) \ ValidSlots = {1, 5}
    /\ DOMAIN pureOut.map = {"W", "NW", "N", "E", "SE", "S"}
    /\ Len(pureOut.list) = 6

(***************************************************************************)
(* C16: calculateHealPixel returns for every position and order; for a     *)
(* negative order, or when the pixelisation throws, it returns -1 and no   *)
(* exception leaves it; it returns no negative value other than -1.        *)
(***************************************************************************)
PixelTotalWithSentinel ==
    (purePc = "done" /\ pureOut.fn = "pixel") =>
        /\ ~pureOut.result.escaped
        /\ pureOut.result.value >= -1
        /\ pureIn.order < 0 => pureOut.result.value = -1
        /\ ~ValidPointing(pureIn.position) => pureOut.result.value = -1
        /\ (pureIn.order >= 0 /\ ValidPointing(pureIn.position)) =>
               pureOut.result.value \in PatchPixels

(***************************************************************************)
(* C17: for every pixel id outside the map, -1 included,                   *)
(* healpixToSkyPosition returns the error position (0, 0, "Error"), not    *)
(* the coordinates of some pixel.                                          *)
(***************************************************************************)
ErrorPositionOutOfRange ==
    (purePc = "done" /\ pureOut.fn = "position") =>
        /\ pureIn.pixel \notin PatchPixels => pureOut.result = ErrorPosition
        /\ pureIn.pixel \in PatchPixels => pureOut.result = pix2ang(pureIn.pixel)

(***************************************************************************)
(* C18: no tile is planned, and no URL is requested, for pixel id -1 or    *)
(* for sky coordinates that are the error position.                        *)
(***************************************************************************)
SentinelsNeverPlanned ==
    /\ \A k \in 1 .. Len(m_tiles) :
         /\ m_tiles[k].healpixPixel # -1
         /\ m_tiles[k].skyCoordinates # ErrorPosition
    /\ \A n \in 1 .. Len(replies) : replies[n].url.pixel # -1

(***************************************************************************)
(* C19: for every valid pixel id at orders 0..13 the tile URL is           *)
(* {baseUrl}/Norder{order}/Dir{dir}/Npix{pixelId}.{ext} with dir the       *)
(* multiple of 10000 with dir <= pixelId < dir + 10000, computed within    *)
(* the 32-bit int that holds it; createTileGrid and the four URL builders  *)
(* of ProperHipsClient give the same URL for the same base, order, pixel   *)
(* and extension.                                                          *)
(***************************************************************************)
UrlDone == purePc = "done" /\ pureOut.fn = "url"

UrlLayout ==
    UrlDone =>
        /\ pureIn.pixel <= IntMax
        /\ pureOut.dss = [base |-> pureIn.baseUrl, order |-> pureIn.order,
                          dir |-> pureOut.dss.dir, pixel |-> pureIn.pixel,
                          format |-> pureIn.format]
        /\ pureOut.dss.dir % DirSpan = 0
        /\ pureOut.dss.dir >= 0
        /\ pureOut.dss.dir <= pureIn.pixel
        /\ pureIn.pixel - pureOut.dss.dir < DirSpan
        /\ pureOut.twomass = pureOut.dss
        /\ pureOut.rubin = pureOut.dss
        /\ pureOut.generic = pureOut.dss
        /\ (pureIn.baseUrl = DSSColorBase /\ pureIn.order = MosaicOrder
                /\ pureIn.format = "jpg") => pureOut.tile = pureOut.dss
        /\ pureOut.tile.dir = pureOut.dss.dir

\* C19 witness: the last pixel of order 13, 805306367, in directory 805300000
UrlLayoutWitness ==
    /\ UrlDone
    /\ pureIn.order = 13
    /\ pureIn.pixel = NPix(13) - 1
    /\ pureIn.baseUrl = DSSColorBase /\ pureIn.format = "jpg"
    /\ pureOut.dss.dir = 805300000
    /\ pureOut.generic = pureOut.dss
    /\ pureOut.tile.dir = 805300000

(***************************************************************************)
(* C20: a local tile file that exists, has at least 1024 bytes, starts     *)
(* with FF D8 FF and decodes as an image is treated as downloaded:         *)
(* checkExistingTile returns true, the tile is marked downloaded and       *)
(* processNextTile issues no fetch for it.  A file that passes the three   *)
(* checks and does not decode is not reused: the tile is fetched.          *)
(***************************************************************************)
ReuseDone == purePc = "done" /\ pureOut.fn = "reuse"

PassesThreeChecks == pureIn.file.exists /\ pureIn.file.bigEnough /\ pureIn.file.magic

Reused ==
    /\ pureOut.returned
    /\ pureOut.tile.downloaded
    /\ pureOut.tile.image = ImageOf(pureOut.tile.healpixPixel)
    /\ pureOut.replies = << >>
    /\ pureOut.idx = pureIn.tileIndex + 1
    /\ Len(pureOut.timers) = 1

Fetched ==
    /\ ~pureOut.returned
    /\ ~pureOut.tile.downloaded
    /\ pureOut.tile.image = NullImage
    /\ Len(pureOut.replies) = 1
    /\ pureOut.replies[1].tileIndex = pureIn.tileIndex
    /\ pureOut.replies[1].url = pureOut.tile.url
    /\ pureOut.idx = pureIn.tileIndex
    /\ pureOut.timers = << >>

ReuseNeedsDecodableFile ==
    ReuseDone =>
        /\ (PassesThreeChecks /\ pureIn.file.decodes) => Reused
        /\ ~(PassesThreeChecks /\ pureIn.file.decodes) => Fetched

\* C20 as stated: the three checks are enough
ReuseOnThreeChecks ==
    (ReuseDone /\ PassesThreeChecks) => Reused

\* C20 witness: a decodable file that passes the three checks was found for the
\* centre tile, which is reused without a fetch
ReuseNeedsDecodableFileWitness ==
    /\ ReuseDone
    /\ PassesThreeChecks
    /\ pureIn.file.decodes
    /\ pureIn.tileIndex = CentreCell - 1
    /\ Reused

(***************************************************************************)
(* C21: calculateTargetPixelPosition returns a pixel of the raw canvas,     *)
(* 0 <= x, y <= 3 * TileSize - 1, for every target and every tile list,     *)
(* and the geometric centre of the canvas for the empty list.               *)
(***************************************************************************)
TargetDone == purePc = "done" /\ pureOut.fn = "target"

TargetPixelOnCanvas ==
    TargetDone =>
        /\ pureOut.pixel.x \in 0 .. (GridDim * TileSize - 1)
        /\ pureOut.pixel.y \in 0 .. (GridDim * TileSize - 1)
        /\ pureIn.tiles = << >> =>
              pureOut.pixel = [x |-> RawMosaicSize \div 2, y |-> RawMosaicSize \div 2]

\* C21 witness: a target on the other side of the sky, held at the canvas edge
TargetPixelOnCanvasWitness ==
    /\ TargetDone
    /\ pureIn.target \in FarTargets
    /\ pureIn.tiles # << >>
    /\ pureOut.pixel.x \in {0, RawMaxPixel}

(***************************************************************************)
(* C22: when the target has the sky coordinates of the tile that            *)
(* calculateTargetPixelPosition selects as containing tile, the result is   *)
(* that tile's centre pixel (gridX * 512 + 256, gridY * 512 + 256),         *)
(* whichever of the nine grid positions the tile has.                       *)
(***************************************************************************)
TargetOnAnchor ==
    /\ TargetDone
    /\ pureIn.tiles # << >>
    /\ pureIn.target # BeyondInt
    /\ pureIn.target.ra = pureIn.tiles[pureIn.anchor].skyCoordinates.ra
    /\ pureIn.target.dec = pureIn.tiles[pureIn.anchor].skyCoordinates.dec

TargetOnTileCentre ==
    TargetOnAnchor =>
        /\ pureOut.pixel.x = pureIn.tiles[pureIn.anchor].gridX * 512 + 256
        /\ pureOut.pixel.y = pureIn.tiles[pureIn.anchor].gridY * 512 + 256

\* C22 witness: the target is the centre of the north-east tile of a full grid
TargetOnTileCentreWitness ==
    /\ TargetOnAnchor
    /\ pureIn.tiles[pureIn.anchor].gridX = 2
    /\ pureIn.tiles[pureIn.anchor].gridY = 0
    /\ pureOut.pixel = [x |-> 1280, y |-> 256]
    /\ \A k \in 1 .. NTiles : k # CentreCell =>
          pureIn.tiles[k].healpixPixel # pureIn.tiles[CentreCell].healpixPixel

(***************************************************************************)
(* C30: the anchor of calculateTargetPixelPosition is a tile at the least   *)
(* angular distance from the target, and when the centre pixel also stands  *)
(* in cells that have no neighbour, so that several tiles tie at the least  *)
(* distance, the anchor is the tile of grid cell (1,1).                      *)
(***************************************************************************)
CentreDuplicated ==
    \E k \in 1 .. NTiles :
        /\ k # CentreCell
        /\ pureIn.tiles[k].healpixPixel = pureIn.tiles[CentreCell].healpixPixel

AnchorIsClosest ==
    \A k \in 1 .. NTiles :
        calculateAngularDistance(pureIn.target, pureIn.tiles[pureIn.anchor].skyCoordinates)
            <= calculateAngularDistance(pureIn.target, pureIn.tiles[k].skyCoordinates)

AnchorIsCentreOnTies ==
    (TargetDone /\ pureIn.tiles # << >> /\ pureIn.target # BeyondInt) =>
        /\ AnchorIsClosest
        /\ (/\ CentreDuplicated
            /\ calculateAngularDistance(pureIn.target,
                                        pureIn.tiles[CentreCell].skyCoordinates)
                 = calculateAngularDistance(pureIn.target,
                                            pureIn.tiles[pureIn.anchor].skyCoordinates))
           => /\ pureIn.tiles[pureIn.anchor].gridX = 1
              /\ pureIn.tiles[pureIn.anchor].gridY = 1

(***************************************************************************)
(* C23: every position the coordinate parser creates has                    *)
(* 0 <= ra_deg < 360 and -90 <= dec_deg <= 90, whatever the texts are.      *)
(***************************************************************************)
ParseDone == purePc = "done" /\ pureOut.fn = "parse"

ParsedPositionInRange ==
    ParseDone =>
        /\ 0 <= m_customTarget.ra
        /\ m_customTarget.ra < FullCircle
        /\ -(FullCircle \div 4) <= m_customTarget.dec
        /\ m_customTarget.dec <= FullCircle \div 4

(***************************************************************************)
(* C24: parseRA reads a text without ':' and without 'h' as hours, times    *)
(* 15, when its value is at most 24.0 and as degrees, unchanged, when it is *)
(* above 24.0; a text with ':' or in the h/m/s form is always               *)
(* (hours + minutes/60 + seconds/3600) * 15.                                *)
(***************************************************************************)
RaDecisionRule ==
    ParseDone =>
        LET written == pureIn.ra
            value == IF written.sign = "-" THEN -written.magnitude
                     ELSE written.magnitude
        IN  /\ written.form = "plain" =>
                 m_customTarget.ra = IF value <= 24 * 3600 THEN value * 15 ELSE value
            /\ written.form \in {"colon", "unit"} =>
                 m_customTarget.ra = written.magnitude * 15

\* C24 witness: "24.1" is above 24.0 and stays 24.1 degrees, while the
\* declination was written with colons
RaDecisionRuleWitness ==
    /\ ParseDone
    /\ pureIn.ra.text = <<"2", "4", ".", "1">>
    /\ m_customTarget.ra = 24 * 3600 + 360
    /\ pureIn.dec.form = "colon"

(***************************************************************************)
(* C25: setCustomCoordinates returns normally for every pair of texts,      *)
(* empty and malformed ones included, and leaves the custom target and the  *)
(* actual target both equal to the parsed position, whose ra is 0.0 when    *)
(* the RA text holds no number and whose dec is 0.0 when the Dec text       *)
(* holds none.                                                              *)
(***************************************************************************)
SetCoordinatesBestEffort ==
    ParseDone =>
        /\ pureOut.returned
        /\ m_customTarget = parseCoordinates(pureIn.ra.text, pureIn.dec.text, "typed")
        /\ m_actualTarget = m_customTarget
        /\ pureIn.ra.form = "none" => m_customTarget.ra = 0
        /\ pureIn.dec.form = "none" => m_customTarget.dec = 0

\* C25 witness: an RA text without a number beside a readable declination
SetCoordinatesBestEffortWitness ==
    /\ ParseDone
    /\ pureIn.ra.text = <<"a", "b", "c">>
    /\ pureIn.dec.form = "plain"
    /\ m_actualTarget.ra = 0
    /\ m_actualTarget.dec = -(45 * 3600)

(***************************************************************************)
(* C26: parseDec applies a leading '-' to the whole magnitude: the text     *)
(* with '-' in front parses to minus what the unsigned text parses to, the  *)
(* text with '+' in front or with no sign parses to the same, and the       *)
(* unsigned text parses to degrees + minutes/60 + seconds/3600.             *)
(***************************************************************************)
DecSignOnWholeMagnitude ==
    ParseDone =>
        LET written == pureIn.dec
        IN  /\ m_customTarget.dec = IF written.sign = "-" THEN -parseDec(written.bare)
                                    ELSE parseDec(written.bare)
            /\ written.form # "none" =>
                 m_customTarget.dec = IF written.sign = "-" THEN -written.magnitude
                                      ELSE written.magnitude

\* C26 witness: "-00d30m00s" gives minus half a degree
DecSignOnWholeMagnitudeWitness ==
    /\ ParseDone
    /\ pureIn.dec.text = <<"-", "0", "0", "d", "3", "0", "m", "0", "0", "s">>
    /\ m_customTarget.dec = -1800
    /\ pureIn.ra.form = "unit"

(***************************************************************************)
(* C27: the image stored as the last generated mosaic and delivered by      *)
(* mosaicComplete holds cropped tile pixels and blank cells only: the       *)
(* crosshair and the labels are drawn on a copy, not on it.                 *)
(***************************************************************************)
StoredMosaicWithoutOverlay == ~m_fullMosaic.isNull => ~m_fullMosaic.overlay

(***************************************************************************)
(* C29: in the raw canvas of a finished assembly every pixel of cell        *)
(* (gx, gy), columns gx*512 .. gx*512+511 and rows gy*512 .. gy*512+511,    *)
(* is the pixel of the tile with gridX = gx and gridY = gy at the same      *)
(* place within the tile when that tile has data, and black otherwise; a    *)
(* 512 x 512 tile writes no pixel outside its cell.  Stated for the corner  *)
(* pixels of every cell.                                                    *)
(***************************************************************************)
CellCorners == {c * 512 + o : c \in 0 .. (GridDim - 1), o \in {0, 511}}

TileOfCell(gx, gy) ==
    CHOOSE k \in 1 .. Len(m_tiles) : m_tiles[k].gridX = gx /\ m_tiles[k].gridY = gy

RawCompositionByCell ==
    phase = "Done" =>
        /\ \A px \in CellCorners, py \in CellCorners :
             LET gx == px \div 512
                 gy == py \div 512
                 tile == m_tiles[TileOfCell(gx, gy)]
             IN  /\ rawMosaicPixel(m_tiles, px, py) =
                        IF HasData(tile)
                        THEN [image |-> tile.image, x |-> px - gx * 512, y |-> py - gy * 512]
                        ELSE Black
                 /\ m_fullMosaic.cells[gy * GridDim + gx] =
                        rawMosaicPixel(m_tiles, px, py).image
        /\ \A k \in 1 .. Len(m_tiles), px \in CellCorners, py \in CellCorners :
             (/\ HasData(m_tiles[k])
              /\ Draws(m_tiles[k].gridX * 512, m_tiles[k].gridY * 512,
                       m_tiles[k].image, px, py))
                => px \div 512 = m_tiles[k].gridX /\ py \div 512 = m_tiles[k].gridY

\* C29 witness: an assembly with a blank cell beside cells that have data
RawCompositionByCellWitness ==
    /\ phase = "Done"
    /\ \E k \in 1 .. Len(m_tiles) : ~HasData(m_tiles[k])
    /\ \E k \in 1 .. Len(m_tiles) :
         /\ HasData(m_tiles[k])
         /\ m_tiles[k].gridX # m_tiles[k].gridY
         /\ rawMosaicPixel(m_tiles, m_tiles[k].gridX * 512 + 511,
                           m_tiles[k].gridY * 512).image = m_tiles[k].image

(***************************************************************************)
(* C28: for every sample position and every order,                          *)
(* healpixToSkyPosition(calculateHealPixel(pos, order), order) lies within  *)
(* one pixel's angular size of pos, and calculateHealPixel of that pixel    *)
(* centre is the same pixel id.                                             *)
(***************************************************************************)
RoundTripDone == purePc = "done" /\ pureOut.fn = "roundtrip"

SignedShortWay(dra) ==
    ((dra + FullCircle + FullCircle \div 2) % FullCircle) - FullCircle \div 2

SeamOffsetIsShortSeparation ==
    (/\ TargetDone
     /\ pureIn.tiles # << >>
     /\ pureIn.target \in PatchPositions \cup SeamTargets) =>
        LET tile == pureIn.tiles[pureIn.anchor]
            short == SignedShortWay(pureIn.target.ra - tile.skyCoordinates.ra)
        IN  pureOut.pixel.x =
                Max(0, Min(tile.gridX * TileSize + TileSize \div 2
                              + Round(short * 100, ArcsecPerPixelCenti),
                           RawMaxPixel))

(***************************************************************************)
(* C32: in every reachable state of the tile workflow a tile with           *)
(* downloaded = true has a picture that is not null: downloaded is set      *)
(* only after the picture decoded, by checkExistingTile and by              *)
(* onTileDownloaded alike.                                                  *)
(***************************************************************************)
DownloadedHasImage ==
    \A k \in 1 .. Len(m_tiles) :
        m_tiles[k].downloaded => m_tiles[k].image # NullImage

\* C32 witness: a timer's processNextTile has just taken a tile from its
\* local file, after one tile that was fetched and one whose fetch failed
DownloadedHasImageWitness ==
    /\ lastEvent.kind = "timer"
    /\ Len(timers) = 1
    /\ m_currentTileIndex >= 3
    /\ m_tiles[m_currentTileIndex].downloaded
    /\ \E j \in 1 .. (m_currentTileIndex - 1) : ~m_tiles[j].downloaded
    /\ \E j \in 1 .. (m_currentTileIndex - 1) : m_tiles[j].downloaded

(***************************************************************************)
(* C33: a workflow that ends with no usable tile leaves the stored mosaic   *)
(* as it was: from its start to its failed end no step changes the last     *)
(* generated mosaic (only a step that completes a mosaic does), and in its  *)
(* failed end the branch that saves the mosaic file, writes the report and  *)
(* emits mosaicComplete has not run for this target.                        *)
(***************************************************************************)
FailedRunKeepsStoredMosaic ==
    /\ [][phase' # "Done" => m_fullMosaic' = m_fullMosaic]_vars
    /\ [](phase = "Failed" =>
            /\ \A k \in 1 .. Len(m_tiles) : ~HasData(m_tiles[k])
            /\ ~report.called
            /\ emitted = 0)

\* C33 witness: a run without any tile data has failed after an earlier run
\* stored its mosaic
FailedRunKeepsStoredMosaicWitness ==
    /\ phase = "Failed"
    /\ ~m_fullMosaic.isNull
    /\ \E c \in 0 .. (NTiles - 1) : m_fullMosaic.cells[c] # NullImage
    /\ \A k \in 1 .. Len(m_tiles) : m_tiles[k].image = NullImage

(***************************************************************************)
(* SurveyDownloader: a queue of positions, each handed to the mosaic        *)
(* creator by processNextInQueue; mosaicComplete is connected to            *)
(* onImageReady, which runs inside the emit.  The downloader's members and  *)
(* its history are a record d; a handler returns the downloader's and the   *)
(* creator's state.                                                         *)
(***************************************************************************)
MaxQueue == 2

Dl ==
    [queue |-> m_testQueue, images |-> m_downloadedImages, name |-> m_currentName,
     qtimers |-> queueTimers, complete |-> allComplete, handed |-> handed]

InstallDl(d) ==
    /\ m_testQueue' = d.queue
    /\ m_downloadedImages' = d.images
    /\ m_currentName' = d.name
    /\ queueTimers' = d.qtimers
    /\ allComplete' = d.complete
    /\ handed' = d.handed

\* downloadForCoordinates.  The setCustomCoordinates it calls first, on the
\* position written out by degToHMS and degToDMS, assigns m_customTarget and
\* m_actualTarget and nothing else; createCustomMosaic assigns both anew from
\* the position itself, so the state left is that of createCustomMosaic.
downloadForCoordinates(d, s, pos, file) ==
    [d |-> [d EXCEPT !.name = pos.name, !.handed = Append(@, pos)],
     s |-> createCustomMosaic(s, pos, s.cur, file, TRUE)]

\* a processNextInQueue that reads the first position and leaves it queued
processNextInQueuePeek(d, s, file) ==
    IF d.queue = << >>
    THEN [d |-> [d EXCEPT !.complete = @ + 1], s |-> s]
    ELSE downloadForCoordinates(d, s, Head(d.queue), file)

\* processNextInQueue: with the queue empty, the metadata file is written and
\* quit is scheduled; otherwise the first position is taken and handed on
processNextInQueue(d, s, file) ==
    IF d.queue = << >>
    THEN [d |-> [d EXCEPT !.complete = @ + 1], s |-> s]
    ELSE downloadForCoordinates([d EXCEPT !.queue = Tail(@)], s, Head(d.queue), file)

\* onImageReady(image), `saved` the outcome of writing the PNG
onImageReady(d, s, saved, file) ==
    IF s.full.isNull
    THEN processNextInQueue(d, s, file)
    ELSE [d |-> [d EXCEPT !.images = IF saved THEN Append(@, s.actual) ELSE @,
                          !.qtimers = @ + 1],
          s |-> s]

\* the creator's handler has run and left s2; mosaicComplete, if it was
\* emitted, has run onImageReady before the handler returned
afterHandler(d, s, s2, saved, file) ==
    IF s2.emitted > s.emitted THEN onImageReady(d, s2, saved, file)
    ELSE [d |-> d, s |-> s2]

NotStarted == handed = << >> /\ allComplete = 0 /\ queued = << >>

\* the positions queued, and the local tile files the downloader's runs
\* meet: none, or one that is reused
QueuePositions == {t \in Targets : t.name \in {"centre", "seven"}}
Queues ==
    UNION { [1 .. n -> QueuePositions] : n \in 0 .. MaxQueue }
QueueFiles == {f \in FileStates : f.exists <=> f.decodes}
QueueFilesMet(s) == IF s.idx >= Len(s.tiles) THEN {NoFile} ELSE QueueFiles

\* downloadTestGrid / downloadCommonTargets: the queue is filled, then
\* processNextInQueue
DownloadQueue ==
    /\ NotStarted /\ phase = "Idle"
    /\ \E queue \in Queues, file \in QueueFiles :
         \E r \in {processNextInQueue([Dl EXCEPT !.queue = queue], St, file)} :
             /\ WithinBudget(r.s)
             /\ Install(r.s)
             /\ InstallDl(r.d)
             /\ queued' = queue
    /\ lastEvent' = StepEvent("queue")
    /\ UNCHANGED <<calls, cropVars, pureVars, libVars, sweepVars, fetchVars,
                   cacheVars>>

\* main with one position on the command line: downloadForCoordinates
DownloadSingle ==
    /\ NotStarted /\ phase = "Idle"
    /\ \E pos \in QueuePositions, file \in QueueFiles :
         \E r \in {downloadForCoordinates(Dl, St, pos, file)} :
             /\ WithinBudget(r.s)
             /\ Install(r.s)
             /\ InstallDl(r.d)
             /\ queued' = <<pos>>
    /\ lastEvent' = StepEvent("call")
    /\ UNCHANGED <<calls, cropVars, pureVars, libVars, sweepVars, fetchVars,
                   cacheVars>>

\* a single-shot timer of the creator fires: processNextTile, and onImageReady
\* when the mosaic is complete
MosaicTimerFires ==
    /\ \E n \in 1 .. Len(timers), file \in QueueFilesMet(St), opens \in ReportOpens(St),
          saved \in BOOLEAN :
         \E s2 \in {processNextTile([St EXCEPT !.timers = RemoveAt(@, n)],
                                     timers[n], file, opens)} :
           \E r \in {afterHandler(Dl, St, s2, saved, NoFile)} :
             /\ s2.emitted > emitted \/ saved     \* no image, nothing to save
             /\ WithinBudget(r.s)
             /\ Install(r.s)
             /\ InstallDl(r.d)
    /\ lastEvent' = TimerEvent
    /\ UNCHANGED <<queued, calls, cropVars, pureVars, libVars, sweepVars, fetchVars,
                   cacheVars>>

\* the downloader's single-shot timer fires: processNextInQueue
QueueTimerFires ==
    /\ queueTimers > 0
    /\ \E file \in QueueFiles :
         \E r \in {processNextInQueue([Dl EXCEPT !.qtimers = @ - 1], St, file)} :
             /\ WithinBudget(r.s)
             /\ Install(r.s)
             /\ InstallDl(r.d)
    /\ lastEvent' = StepEvent("queue")
    /\ UNCHANGED <<queued, calls, cropVars, pureVars, libVars, sweepVars, fetchVars,
                   cacheVars>>

\* the downloader at work: the replies are the creator's
NextSurvey ==
    \/ DownloadQueue
    \/ DownloadSingle
    \/ MosaicTimerFires
    \/ QueueTimerFires
    \/ ReplyFinished
    \/ AbortTimeout
SpecSurvey == Init /\ [][NextSurvey]_vars

\* the same, with every timer firing and every reply finishing or timing out
QueueStep ==
    /\ queueTimers > 0
    /\ lastEvent' = StepEvent("queue")

FairSpecSurvey ==
    /\ Init
    /\ [][NextSurvey]_vars
    /\ WF_lastEvent(TimerStep)
    /\ WF_lastEvent(ReplyStep)
    /\ WF_lastEvent(QueueStep)

\* C34: the positions are handed to the creator in the order they were queued,
\* each once (those handed, followed by those still queued, are the queue as
\* it was filled); a position after the first is handed only when the
\* creator has completed the mosaic of the one before, onImageReady has run
\* for it and its timer is the one firing; and one workflow at most is at
\* work: one reply or one timer of the creator at most, none while the
\* downloader's timer is pending, and no handler ever run for a mosaic other
\* than the current one.
QueueInOrderOneAtATime ==
    /\ [](/\ handed \o m_testQueue = queued
          /\ Len(replies) + Len(timers) <= 1
          /\ ~stale
          /\ queueTimers <= 1
          /\ (queueTimers = 1 =>
                 phase = "Done" /\ replies = << >> /\ timers = << >>))
    /\ [][handed' # handed =>
            /\ handed' = Append(handed, queued'[Len(handed) + 1])
            /\ (handed # << >> =>
                   /\ phase = "Done" /\ emitted = 1
                   /\ replies = << >> /\ timers = << >>
                   /\ queueTimers = 1 /\ queueTimers' = 0)]_vars

\* C34 witness: a queue of two different positions, both handed and both
\* mosaics completed, the second image saved and the first not
QueueInOrderOneAtATimeWitness ==
    /\ Len(queued) = 2 /\ queued[1] # queued[2]
    /\ handed = queued
    /\ allComplete = 1
    /\ m_downloadedImages = <<queued[2]>>

\* C35: once positions are queued, the downloader reaches the "all downloads
\* complete" branch with the queue drained
QueueAlwaysDrains ==
    (queued # << >>) ~> (allComplete > 0 /\ m_testQueue = << >>)

\* the stall: a mosaic has failed with positions handed, nothing is pending
\* anywhere and the complete branch has not run
QueueStalled ==
    /\ phase = "Failed"
    /\ replies = << >> /\ timers = << >> /\ queueTimers = 0
    /\ allComplete = 0

(***************************************************************************)
(* ProperHipsClient: the sweep of testAllSurveys over every survey and      *)
(* every test position, one request after the other, and                   *)
(* testSurveyAtPosition, which issues one request of its own.  Both         *)
(* connect their reply to onReplyFinished.  The client's members and the    *)
(* sweep's history are a record h.                                          *)
(***************************************************************************)
TestOrder == 6
MaxExtras == 1

\* the surveys of setupSurveys (those commented out included): baseUrl, format
SurveyInfo ==
    [name \in {"DSS2_Color", "2MASS_Color", "Gaia_DR3"} |->
        IF name = "DSS2_Color"
        THEN [baseUrl |-> DSSColorBase, format |-> "jpg"]
        ELSE IF name = "2MASS_Color"
        THEN [baseUrl |-> "http://alasky.u-strasbg.fr/2MASS/Color", format |-> "jpg"]
        ELSE [baseUrl |-> "http://alasky.u-strasbg.fr/Gaia/Gaia-DR3", format |-> "png"]]

\* the survey tables a client may hold, in key order (QMap sorts its keys)
SurveyTables == { <<"DSS2_Color">>, <<"2MASS_Color", "DSS2_Color">>,
                  <<"DSS2_Color", "Gaia_DR3">> }

\* test positions: two the pixelisation accepts, one it does not
SweepPositions ==
    LET c == healpixToSkyPosition(PixelAt(1, 1))
    IN  { <<[ra |-> c.ra, dec |-> c.dec, name |-> "Orion"]>>,
          <<[ra |-> c.ra, dec |-> c.dec, name |-> "Orion"],
            [ra |-> 0, dec |-> FullCircle \div 4 + 3600, name |-> "beyond"]>>,
          <<[ra |-> 0, dec |-> FullCircle \div 4 + 3600, name |-> "beyond"],
            [ra |-> c.ra - 400, dec |-> c.dec + 300, name |-> "Virgo_Center"]>> }

Hips ==
    [surveys |-> m_surveys, positions |-> m_testPositions, results |-> m_results,
     si |-> m_currentSurveyIndex, pi |-> m_currentPositionIndex,
     replies |-> hipsReplies, timers |-> hipsTimers, complete |-> testingComplete,
     tested |-> tested]

InstallHips(h) ==
    /\ m_surveys' = h.surveys
    /\ m_testPositions' = h.positions
    /\ m_results' = h.results
    /\ m_currentSurveyIndex' = h.si
    /\ m_currentPositionIndex' = h.pi
    /\ hipsReplies' = h.replies
    /\ hipsTimers' = h.timers
    /\ testingComplete' = h.complete
    /\ tested' = h.tested

\* buildTileUrl at order 6: the builder is chosen by the survey's name
\* (DSS... and ...Mellinger..., 2MASS..., Rubin..., any other)
buildTileUrl(surveys, surveyName, position) ==
    LET known == \E k \in 1 .. Len(surveys) : surveys[k] = surveyName
        info == SurveyInfo[surveyName]
        pixel == calculateHealPixelAt(position, TestOrder, 0).value
    IN  IF ~known THEN NoUrl
        ELSE IF surveyName = "DSS2_Color" THEN buildDSSUrl(info, TestOrder, pixel)
        ELSE IF surveyName = "2MASS_Color" THEN build2MASSUrl(info, TestOrder, pixel)
        ELSE buildGenericHipsUrl(info.baseUrl, info.format, TestOrder, pixel)

\* the request both testers issue: a reply carrying survey, position, url and
\* pixel as properties (bySweep: issued by startNextTest)
hipsRequest(h, surveyName, position, url, bySweep) ==
    [h EXCEPT !.replies = Append(@,
                 [survey |-> surveyName, position |-> position.name, url |-> url,
                  pixel |-> calculateHealPixelAt(position, TestOrder, 0).value,
                  bySweep |-> bySweep])]

\* the text "URL_BUILD_FAILED" where a result holds a URL
UrlBuildFailed ==
    [base |-> "URL_BUILD_FAILED", order |-> 0, dir |-> 0, pixel |-> 0, format |-> ""]

\* finishTesting: summary and CSV written, testingComplete emitted
finishTesting(h) == [h EXCEPT !.complete = @ + 1]

\* moveToNextTest: the next pair, survey-major, and a 200 ms timer
moveToNextTest(h) ==
    LET pi == h.pi + 1
    IN  IF pi >= Len(h.positions)
        THEN [h EXCEPT !.pi = 0, !.si = @ + 1, !.timers = @ + 1]
        ELSE [h EXCEPT !.pi = pi, !.timers = @ + 1]

\* startNextTest
startNextTest(h) ==
    IF h.si >= Len(h.surveys) THEN finishTesting(h)
    ELSE LET surveyName == h.surveys[h.si + 1]
             position == h.positions[h.pi + 1]
             url == buildTileUrl(h.surveys, surveyName, position)
             h1 == [h EXCEPT !.tested = Append(@, <<surveyName, position.name>>)]
         IN  IF url = NoUrl
             THEN moveToNextTest(
                      [h1 EXCEPT !.results = Append(@,
                          [survey |-> surveyName, position |-> position.name,
                           success |-> FALSE, url |-> UrlBuildFailed,
                           healpixPixel |-> -1, bySweep |-> TRUE])])
             ELSE hipsRequest(h1, surveyName, position, url, TRUE)

\* testAllSurveys
testAllSurveys(h) ==
    startNextTest([h EXCEPT !.results = << >>, !.si = 0, !.pi = 0])

\* testSurveyAtPosition
testSurveyAtPosition(h, surveyName, position) ==
    LET url == buildTileUrl(h.surveys, surveyName, position)
    IN  IF url = NoUrl THEN h
        ELSE hipsRequest(h, surveyName, position, url, FALSE)

\* onReplyFinished for the n-th reply in flight; ok: reply->error() is NoError
onReplyFinished(h, n, ok) ==
    LET reply == h.replies[n]
    IN  moveToNextTest(
            [h EXCEPT !.results = Append(@,
                         [survey |-> reply.survey, position |-> reply.position,
                          success |-> ok, url |-> reply.url,
                          healpixPixel |-> reply.pixel, bySweep |-> reply.bySweep]),
                      !.replies = RemoveAt(@, n)])

SweepInputs ==
    \E surveys \in SurveyTables, positions \in SweepPositions :
        SweepIdleWith(surveys, positions)

\* the application calls testAllSurveys, once
CallTestAllSurveys ==
    /\ sweeps = 0
    /\ InstallHips(testAllSurveys(Hips))
    /\ sweeps' = 1
    /\ UNCHANGED <<extras, flowVars, calls, lastEvent, cropVars, pureVars, libVars,
                   surveyVars, fetchVars, cacheVars>>

\* a caller tests one survey at one position while the sweep is under way
CallTestSurveyAtPosition ==
    /\ extras < MaxExtras
    /\ sweeps = 1 /\ testingComplete = 0
    /\ \E k \in 1 .. Len(m_surveys), p \in 1 .. Len(m_testPositions) :
         InstallHips(testSurveyAtPosition(Hips, m_surveys[k], m_testPositions[p]))
    /\ extras' = extras + 1
    /\ UNCHANGED <<sweeps, flowVars, calls, lastEvent, cropVars, pureVars, libVars,
                   surveyVars, fetchVars, cacheVars>>

\* a 200 ms timer fires: startNextTest
StartTimerFires ==
    /\ hipsTimers > 0
    /\ InstallHips(startNextTest([Hips EXCEPT !.timers = @ - 1]))
    /\ UNCHANGED <<sweeps, extras, flowVars, calls, lastEvent, cropVars, pureVars,
                   libVars, surveyVars, fetchVars, cacheVars>>

\* a reply finishes, with or without an error
HipsReplyFinished ==
    /\ \E n \in 1 .. Len(hipsReplies), ok \in BOOLEAN :
         InstallHips(onReplyFinished(Hips, n, ok))
    /\ UNCHANGED <<sweeps, extras, flowVars, calls, lastEvent, cropVars, pureVars,
                   libVars, surveyVars, fetchVars, cacheVars>>

\* the 15 s timer aborts a reply in flight: finished() with an error
HipsReplyAborted ==
    /\ \E n \in 1 .. Len(hipsReplies) :
         InstallHips(onReplyFinished(Hips, n, FALSE))
    /\ UNCHANGED <<sweeps, extras, flowVars, calls, lastEvent, cropVars, pureVars,
                   libVars, surveyVars, fetchVars, cacheVars>>

InitSweep ==
    /\ FlowInit /\ SurveyIdle /\ SweepInputs /\ FetcherIdle /\ CacheIdle
    /\ CropIdle /\ PureIdle /\ LibPlain
NextSweep ==
    \/ CallTestAllSurveys
    \/ CallTestSurveyAtPosition
    \/ StartTimerFires
    \/ HipsReplyFinished
    \/ HipsReplyAborted
SpecSweep == InitSweep /\ [][NextSweep]_vars

\* the k-th pair of the sweep, survey-major, and the number of pairs
PairAt(k) ==
    <<m_surveys[((k - 1) \div Len(m_testPositions)) + 1],
      m_testPositions[((k - 1) % Len(m_testPositions)) + 1].name>>
PairCount == Len(m_surveys) * Len(m_testPositions)

\* the results the sweep's own tests have appended, in order
SweepResults == SelectSeq(m_results, LAMBDA r : r.bySweep)

\* C36: the sweep takes up the pairs in survey-major order, each once, with
\* one request of its own in flight at most; it has appended one result for
\* each pair taken up (but for the pair in flight), a failed one with the URL
\* "URL_BUILD_FAILED" where no URL could be built; testingComplete is
\* emitted once at most, and only after the last pair has its result --
\* whether or not testSurveyAtPosition is called meanwhile.
SweepOncePerPair ==
    /\ Len(tested) <= PairCount
    /\ \A k \in 1 .. Min(Len(tested), PairCount) : tested[k] = PairAt(k)
    /\ Cardinality({n \in 1 .. Len(hipsReplies) : hipsReplies[n].bySweep}) <= 1
    /\ Len(SweepResults) =
           Len(tested) - Cardinality({n \in 1 .. Len(hipsReplies) : hipsReplies[n].bySweep})
    /\ \A k \in 1 .. Min(Len(SweepResults), PairCount) :
           /\ <<SweepResults[k].survey, SweepResults[k].position>> = PairAt(k)
           /\ SweepResults[k].url = UrlBuildFailed => ~SweepResults[k].success
    /\ testingComplete <= 1
    /\ testingComplete = 1 =>
           Len(tested) = PairCount /\ Len(SweepResults) = PairCount

\* a sweep that has skipped a pair: complete, with a pair never taken up
SweepSkippedPair ==
    /\ testingComplete >= 1
    /\ Len(tested) < PairCount

(***************************************************************************)
(* DSSViewerWindow (src/fetcher/main.cpp): a single-survey fetch, the       *)
(* three fetches of a false-colour composite, and Save.  The fetcher emits  *)
(* fitsDataReceived or errorOccurred once for each request.  The window's   *)
(* members and its history are a record v.                                  *)
(***************************************************************************)
MaxRequests == 5

Viewer ==
    [composite |-> fetchingComposite, count |-> compositeFetchCount,
     ir |-> irImage, red |-> redImage, blue |-> blueImage,
     image |-> currentImage, data |-> currentImageData,
     controls |-> controlsEnabled, save |-> saveEnabled,
     replies |-> fetchReplies, requested |-> requested, composites |-> composites,
     savedFile |-> savedFile, fetches |-> fetches, latest |-> latest]

InstallViewer(v) ==
    /\ fetchingComposite' = v.composite
    /\ compositeFetchCount' = v.count
    /\ irImage' = v.ir
    /\ redImage' = v.red
    /\ blueImage' = v.blue
    /\ currentImage' = v.image
    /\ currentImageData' = v.data
    /\ controlsEnabled' = v.controls
    /\ saveEnabled' = v.save
    /\ fetchReplies' = v.replies
    /\ requested' = v.requested
    /\ composites' = v.composites
    /\ savedFile' = v.savedFile
    /\ fetches' = v.fetches
    /\ latest' = v.latest

\* DSSImageFetcher::fetchByCoordinates, always for FITS: one more reply
fetchByCoordinates(v, survey) ==
    [v EXCEPT !.replies = Append(@, [id |-> v.fetches + 1, survey |-> survey]),
              !.fetches = @ + 1,
              !.requested = Append(@, survey)]

\* onFetchObject, an object being selected
onFetchObject(v, survey) ==
    fetchByCoordinates(
        [v EXCEPT !.composite = FALSE, !.controls = FALSE, !.requested = << >>],
        survey)

\* onFetchComposite
onFetchComposite(v) ==
    fetchByCoordinates(
        [v EXCEPT !.composite = TRUE, !.count = 0,
                  !.ir = NullQImage, !.red = NullQImage, !.blue = NullQImage,
                  !.controls = FALSE, !.requested = << >>],
        "poss2ukstu_ir")

\* onError
onError(v) == [v EXCEPT !.composite = FALSE, !.controls = TRUE]

\* createFalseColorComposite
createFalseColorComposite(v) ==
    LET v1 == [v EXCEPT !.composites = @ + 1]
    IN  IF v.ir = NullQImage \/ v.red = NullQImage \/ v.blue = NullQImage
        THEN [v1 EXCEPT !.controls = TRUE, !.composite = FALSE]
        ELSE LET png == [kind |-> "png", id |-> v.blue[1], parses |-> FALSE]
             IN  [v1 EXCEPT !.image = v.ir \o v.red \o v.blue,
                            !.data = png,
                            !.controls = TRUE, !.save = TRUE, !.composite = FALSE,
                            !.latest = [kind |-> "composite", data |-> png]]

\* a continueCompositeFetch that asks for the blue plate before the red one
continueCompositeFetchBlueFirst(v) ==
    LET v1 == [v EXCEPT !.count = @ + 1]
    IN  IF v1.count = 1 THEN fetchByCoordinates(v1, "poss2ukstu_blue")
        ELSE IF v1.count = 2 THEN fetchByCoordinates(v1, "poss2ukstu_red")
        ELSE IF v1.count = 3 THEN createFalseColorComposite(v1)
        ELSE v1

\* continueCompositeFetch
continueCompositeFetch(v) ==
    LET v1 == [v EXCEPT !.count = @ + 1]
    IN  IF v1.count = 1 THEN fetchByCoordinates(v1, "poss2ukstu_red")
        ELSE IF v1.count = 2 THEN fetchByCoordinates(v1, "poss2ukstu_blue")
        ELSE IF v1.count = 3 THEN createFalseColorComposite(v1)
        ELSE v1

\* parseFitsToImage: a null image for bytes cfitsio does not read as an image
parseFitsToImage(fitsData) ==
    IF fitsData.kind = "fits" /\ fitsData.parses THEN <<fitsData.id>> ELSE NullQImage

\* onFitsReceived
onFitsReceived(v, fitsData) ==
    IF v.composite
    THEN LET img == parseFitsToImage(fitsData)
         IN  IF img = NullQImage THEN onError(v)
             ELSE continueCompositeFetch(
                      IF v.count = 0 THEN [v EXCEPT !.ir = img]
                      ELSE IF v.count = 1 THEN [v EXCEPT !.red = img]
                      ELSE IF v.count = 2 THEN [v EXCEPT !.blue = img]
                      ELSE v)
    ELSE [v EXCEPT !.data = fitsData, !.image = NullQImage,
                   !.controls = TRUE, !.save = TRUE,
                   !.latest = [kind |-> "single", data |-> fitsData]]

\* onSaveImage: fileChosen, a name was given in the dialog; ok, the file
\* could be written
onSaveImage(v, fileChosen, ok) ==
    LET isComposite == v.ir # NullQImage /\ v.red # NullQImage /\ v.blue # NullQImage
    IN  IF v.data = NoData /\ v.image = NullQImage THEN v
        ELSE IF ~fileChosen \/ ~ok THEN v
        ELSE IF isComposite
        THEN [v EXCEPT !.savedFile =
                 [kind |-> "composite", data |-> NoData,
                  planes |-> v.ir \o v.red \o v.blue, latest |-> v.latest]]
        ELSE IF v.data # NoData
        THEN [v EXCEPT !.savedFile =
                 [kind |-> "raw", data |-> v.data, planes |-> << >>,
                  latest |-> v.latest]]
        ELSE v

ViewerSurveys == {"poss2ukstu_red", "poss1_blue"}

\* the user clicks "Fetch" with a survey chosen
ClickFetchObject ==
    /\ controlsEnabled /\ fetches < MaxRequests
    /\ \E survey \in ViewerSurveys : InstallViewer(onFetchObject(Viewer, survey))
    /\ UNCHANGED <<flowVars, calls, lastEvent, cropVars, pureVars, libVars,
                   surveyVars, sweepVars, cacheVars>>

\* the user clicks "Fetch composite"
ClickFetchComposite ==
    /\ controlsEnabled /\ fetches < MaxRequests
    /\ InstallViewer(onFetchComposite(Viewer))
    /\ UNCHANGED <<flowVars, calls, lastEvent, cropVars, pureVars, libVars,
                   surveyVars, sweepVars, cacheVars>>

\* a reply finishes without error: handleReply emits fitsDataReceived
FitsArrives ==
    /\ \E n \in 1 .. Len(fetchReplies), parses \in BOOLEAN :
         InstallViewer(onFitsReceived(
             [Viewer EXCEPT !.replies = RemoveAt(@, n)],
             [kind |-> "fits", id |-> fetchReplies[n].id, parses |-> parses]))
    /\ UNCHANGED <<flowVars, calls, lastEvent, cropVars, pureVars, libVars,
                   surveyVars, sweepVars, cacheVars>>

\* a reply finishes with an error: handleReply emits errorOccurred
FetchFails ==
    /\ \E n \in 1 .. Len(fetchReplies) :
         InstallViewer(onError([Viewer EXCEPT !.replies = RemoveAt(@, n)]))
    /\ UNCHANGED <<flowVars, calls, lastEvent, cropVars, pureVars, libVars,
                   surveyVars, sweepVars, cacheVars>>

\* the user clicks "Save Image"
ClickSave ==
    /\ saveEnabled
    /\ \E fileChosen \in BOOLEAN, ok \in BOOLEAN :
         InstallViewer(onSaveImage(Viewer, fileChosen, ok))
    /\ UNCHANGED <<flowVars, calls, lastEvent, cropVars, pureVars, libVars,
                   surveyVars, sweepVars, cacheVars>>

NextFetch ==
    \/ ClickFetchObject
    \/ ClickFetchComposite
    \/ FitsArrives
    \/ FetchFails
    \/ ClickSave
SpecFetch == Init /\ [][NextFetch]_vars

\* the same, with every reply finishing
FairSpecFetch ==
    /\ Init
    /\ [][NextFetch]_vars
    /\ WF_fetchVars(FitsArrives \/ FetchFails)

CompositeOrder == <<"poss2ukstu_ir", "poss2ukstu_red", "poss2ukstu_blue">>

SaveWritesLatestFetch ==
    (savedFile.kind # "none" /\ savedFile.latest.kind = "single") =>
        (savedFile.kind = "raw" /\ savedFile.data = savedFile.latest.data)

\* Save after a composite and then a single-survey fetch: the three planes
\* of the composite are written
SaveWritesStaleComposite ==
    /\ savedFile.kind = "composite"
    /\ savedFile.latest.kind = "single"

(***************************************************************************)
(* The operations of ImageCache, on the record c of its files, its          *)
(* metadata and its history.                                                *)
(***************************************************************************)
Cache ==
    [files |-> cacheFiles, metadata |-> metadata, recent |-> recent, got |-> got]

InstallCache(c) ==
    /\ cacheFiles' = c.files
    /\ metadata' = c.metadata
    /\ recent' = c.recent
    /\ got' = c.got

\* isCached: QFile::exists of the path
isCached(c, p) ==
    c.files[getCachePath(generateCacheKey(p), p.format)].exists

\* cacheImage: opens, whether the file could be opened for writing
cacheImage(c, data, p, time, opens) ==
    LET key == generateCacheKey(p)
        path == getCachePath(key, p.format)
    IN  IF ~opens THEN c
        ELSE [c EXCEPT !.files[path] = [exists |-> TRUE, data |-> data],
                       !.metadata[key] =
                           [present |-> TRUE, format |-> p.format, lastAccess |-> time,
                            accessCount |-> 1, size |-> Len(data)],
                       !.recent[key] = data]

\* getCachedImage: the bytes returned are c.got.data (with, for the record,
\* whether the key had a metadata entry and the bytes cached last for it)
getCachedImage(c, p, time) ==
    LET key == generateCacheKey(p)
        path == getCachePath(key, p.format)
        asked == [called |-> TRUE, cached |-> c.metadata[key].present,
                  data |-> << >>, recent |-> c.recent[key]]
    IN  IF c.files[path].exists
        THEN [c EXCEPT !.metadata[key] =
                           [@ EXCEPT !.lastAccess = time,
                                     !.accessCount = Min(@ + 1, MaxAccess)],
                       !.got = [asked EXCEPT !.data = c.files[path].data]]
        ELSE [c EXCEPT !.got = asked]

\* getStats
RECURSIVE SumSizes(_, _)
SumSizes(entries, keys) ==
    IF keys = {} THEN 0
    ELSE LET k == CHOOSE x \in keys : TRUE
         IN  entries[k].size + SumSizes(entries, keys \ {k})
getStats(c) ==
    LET keys == {k \in CacheKeys : c.metadata[k].present}
    IN  [totalImages |-> Cardinality(keys), totalSize |-> SumSizes(c.metadata, keys)]

\* clearCache
clearCache(c) ==
    [c EXCEPT !.files = [f \in CachePaths |-> Missing],
              !.metadata = [k \in CacheKeys |-> NoEntry]]

\* a cleanup that drops the metadata entries and leaves the files
cleanupLeavingFiles(c, time, maxAgeHours) ==
    LET old == {k \in CacheKeys :
                   c.metadata[k].present /\ c.metadata[k].lastAccess < time - maxAgeHours}
    IN  [c EXCEPT !.metadata = [k \in CacheKeys |-> IF k \in old THEN NoEntry ELSE @[k]]]

\* cleanupOldEntries
cleanupOldEntries(c, time, maxAgeHours) ==
    LET cutoff == time - maxAgeHours
        keysToRemove == {k \in CacheKeys :
                            c.metadata[k].present /\ c.metadata[k].lastAccess < cutoff}
        paths == {getCachePath(k, c.metadata[k].format) : k \in keysToRemove}
    IN  [c EXCEPT !.files = [f \in CachePaths |-> IF f \in paths THEN Missing ELSE @[f]],
                  !.metadata = [k \in CacheKeys |->
                                   IF k \in keysToRemove THEN NoEntry ELSE @[k]]]

CacheImage ==
    /\ \E p \in CacheParams, data \in CacheData, opens \in BOOLEAN :
         InstallCache(cacheImage(Cache, data, p, now, opens))
    /\ lastOp' = "cacheImage"
    /\ UNCHANGED <<now, flowVars, calls, lastEvent, cropVars, pureVars, libVars,
                   surveyVars, sweepVars, fetchVars>>

GetCachedImage ==
    /\ \E p \in CacheParams : InstallCache(getCachedImage(Cache, p, now))
    /\ lastOp' = "getCachedImage"
    /\ UNCHANGED <<now, flowVars, calls, lastEvent, cropVars, pureVars, libVars,
                   surveyVars, sweepVars, fetchVars>>

CleanupOldEntries ==
    /\ \E maxAgeHours \in 0 .. MaxClock :
         InstallCache(cleanupOldEntries(Cache, now, maxAgeHours))
    /\ lastOp' = "cleanupOldEntries"
    /\ UNCHANGED <<now, flowVars, calls, lastEvent, cropVars, pureVars, libVars,
                   surveyVars, sweepVars, fetchVars>>

ClearCache ==
    /\ InstallCache(clearCache(Cache))
    /\ lastOp' = "clearCache"
    /\ UNCHANGED <<now, flowVars, calls, lastEvent, cropVars, pureVars, libVars,
                   surveyVars, sweepVars, fetchVars>>

\* an hour passes
HourPasses ==
    /\ now < MaxClock
    /\ now' = now + 1
    /\ lastOp' = "none"
    /\ UNCHANGED <<cacheFiles, metadata, recent, got, flowVars, calls, lastEvent,
                   cropVars, pureVars, libVars, surveyVars, sweepVars, fetchVars>>

NextCache ==
    \/ CacheImage
    \/ GetCachedImage
    \/ CleanupOldEntries
    \/ ClearCache
    \/ HourPasses
SpecCache == Init /\ [][NextCache]_vars

=============================================================================
